---- MODULE Spec2Model ----
(***************************************************************************)
(* Verification model of the control-dashboard server side:               *)
(*   - verifyAuth            (lib/auth/verify-auth.ts)                     *)
(*   - rateLimit / cleanup   (lib/utils/rate-limit.ts)                     *)
(*   - withRateLimit         (lib/utils/rate-limit-middleware.ts)          *)
(*   - the API route handlers (app/api/**/route.ts)                        *)
(*   - DataSyncService       (lib/services/data-sync.ts)                   *)
(* Five specifications share the module: SpecAuth (verifyAuth over its     *)
(* inputs), SpecRate (direct rateLimit calls), SpecHttp and SpecLogin      *)
(* (requests to the routes) and SpecSync (the sync service against the     *)
(* database).                                                              *)
(***************************************************************************)
EXTENDS Integers, Sequences, FiniteSets, TLC

VARIABLES
    authIn,       \* SpecAuth: the request and environment verifyAuth runs in
    authOut,      \* SpecAuth: [called, result]: whether verifyAuth ran, and its result
    now,          \* Date.now(), integer milliseconds
    lastCleanup,  \* rate-limit.ts: let lastCleanup
    store,        \* rate-limit.ts: const store, identifier -> entry or NoEntry
    nticks,       \* number of clock advances so far (bounded by MaxTicks)
    win,          \* per identifier: its current fixed window, as the claims define it
    last,         \* SpecRate: the last rateLimit call and its result
    resp,         \* SpecHttp: the last request and the response it got
    usage,        \* SpecHttp: the number of requests the user has sent to /api/sync
    date,         \* SpecSync: the UTC date, new Date().toISOString().split('T')[0]
    upstream,     \* SpecSync: what the PerfexCRM and the Uchat API answer now
    apiConfig,    \* SpecSync: perfexcrmConfig / uchatConfig complete or not
    db,           \* SpecSync: the tables the sync writes, and the next row id
    task,         \* SpecSync: the invocations of the service, by number
    proc,         \* SpecSync: the syncPerfexCRM / syncUchat call of each invocation
    nchanges,     \* SpecSync: number of upstream changes so far (MaxChanges)
    provider,     \* SpecGuard: AuthProvider's state: user, loading, isAuthorized
    client,       \* SpecGuard: the supabase client: its session, the events and
                  \*   promises it has yet to deliver
    checks,       \* SpecGuard: the checkAuthorization calls in flight
    guard,        \* SpecGuard: AuthGuard: mounted or not, its last render, the
                  \*   dependencies of its effect, the navigation it pushed
    call,         \* SpecRetry: one GET of an API client through retryRequest
    unswept,      \* SpecSweep: the store of a limiter that never sweeps
    headerState,  \* SpecRefresh: DashboardHeader: isRefreshing, where its
                  \*   handleRefresh is, the response it got, its onRefresh calls
    hook,         \* SpecRealtime: useRealtimeData's three states
    fetches,      \* SpecRealtime: the fetches of the hook that are in flight
    notes         \* SpecRealtime: the change notifications not yet delivered

syncVars == <<date, upstream, apiConfig, db, task, proc, nchanges>>

\* the variables of the browser side
pageVars == <<provider, client, checks, guard>>

\* the variables of neither the server's routes nor the sync service
restVars == <<provider, client, checks, guard, call, unswept,
              headerState, hook, fetches, notes>>

\* the variables of the dashboard page
uiVars == <<headerState, hook, fetches, notes>>

vars == <<authIn, authOut, now, lastCleanup, store, nticks, win, last, resp, usage,
          date, upstream, apiConfig, db, task, proc, nchanges,
          provider, client, checks, guard, call, unswept,
          headerState, hook, fetches, notes>>

----------------------------------------------------------------------------
(* Strings that the code transforms are tuples of one-character strings.   *)

UpperChars ==
    <<"A", "B", "C", "D", "E", "F", "G", "H", "I", "J", "K", "L", "M",
      "N", "O", "P", "Q", "R", "S", "T", "U", "V", "W", "X", "Y", "Z">>

LowerChars ==
    <<"a", "b", "c", "d", "e", "f", "g", "h", "i", "j", "k", "l", "m",
      "n", "o", "p", "q", "r", "s", "t", "u", "v", "w", "x", "y", "z">>

\* the lower-case letter of each upper-case letter
LowerOfUpper ==
    [c \in {UpperChars[i] : i \in 1..26} |->
        LowerChars[CHOOSE i \in 1..26 : UpperChars[i] = c]]

\* String.prototype.toLowerCase: every upper-case letter becomes its lower-case
\* letter, every other character stays
toLowerCase(s) ==
    [i \in 1..Len(s) |->
        IF s[i] \in DOMAIN LowerOfUpper THEN LowerOfUpper[s[i]] ELSE s[i]]

\* const AUTHORIZED_EMAIL = "info@intercambioinmobiliario.com"
AUTHORIZED_EMAIL ==
    <<"i", "n", "f", "o", "@", "i", "n", "t", "e", "r", "c", "a", "m", "b", "i", "o",
      "i", "n", "m", "o", "b", "i", "l", "i", "a", "r", "i", "o", ".", "c", "o", "m">>

\* AUTHORIZED_EMAIL.toLowerCase()
AUTHORIZED_EMAIL_LOWER == toLowerCase(AUTHORIZED_EMAIL)

\* the same address as a provider may report it in another letter case
UPPER_EMAIL ==
    <<"I", "N", "F", "O", "@", "I", "N", "T", "E", "R", "C", "A", "M", "B", "I", "O",
      "I", "N", "M", "O", "B", "I", "L", "I", "A", "R", "I", "O", ".", "C", "O", "M">>

MIXED_EMAIL ==
    <<"I", "n", "f", "o", "@", "i", "n", "t", "e", "r", "c", "a", "m", "b", "i", "o",
      "i", "n", "m", "o", "b", "i", "l", "i", "a", "r", "i", "o", ".", "c", "o", "m">>

OTHER_EMAIL == <<"e", "v", "e", "@", "x", ".", "i", "o">>

\* user.email is optional in the provider's User type: <<>> with hasEmail FALSE
NoUser == [id |-> <<>>, hasEmail |-> FALSE, email |-> <<>>]

\* The users the auth provider knows, by the bearer token that names them.
TokenUsers ==
    [ tokExact |-> [id |-> <<"u", "1">>, hasEmail |-> TRUE,  email |-> AUTHORIZED_EMAIL],
      tokUpper |-> [id |-> <<"u", "2">>, hasEmail |-> TRUE,  email |-> UPPER_EMAIL],
      tokMixed |-> [id |-> <<"u", "3">>, hasEmail |-> TRUE,  email |-> MIXED_EMAIL],
      tokOther |-> [id |-> <<"u", "4">>, hasEmail |-> TRUE,  email |-> OTHER_EMAIL],
      tokNoMail |-> [id |-> <<"u", "5">>, hasEmail |-> FALSE, email |-> <<>>] ]

\* The environment of one verifyAuth call.
\*   configOK : NEXT_PUBLIC_SUPABASE_URL and ..._ANON_KEY are both set
\*   provider : what supabase.auth.getUser does: answers by the token ("ok"),
\*              answers an error, answers neither error nor user, or throws
\*   accounts : the authorized_accounts table (rows of email, is_active);
\*              001_initial_schema.sql seeds the first; email is UNIQUE
\*   db       : the table query answers ("ok"), answers an error, or throws
AuthEnvs ==
    [ configOK : BOOLEAN,
      provider : {"ok", "error", "nulluser", "throws"},
      accounts : { {[email |-> AUTHORIZED_EMAIL, is_active |-> TRUE]},
                   {[email |-> AUTHORIZED_EMAIL, is_active |-> FALSE]},
                   {[email |-> UPPER_EMAIL, is_active |-> TRUE]},
                   {[email |-> AUTHORIZED_EMAIL, is_active |-> TRUE],
                    [email |-> OTHER_EMAIL, is_active |-> TRUE]},
                   {} },
      db       : {"ok", "error", "throws"} ]

\* supabase.auth.getUser(token): {data: {user}, error}
getUser(header, env) ==
    IF env.provider = "ok" /\ header \in DOMAIN TokenUsers
    THEN [error |-> FALSE, user |-> TokenUsers[header]]
    ELSE [error |-> (env.provider # "nulluser"), user |-> NoUser]

\* .from("authorized_accounts").select(...).eq("email", email)
\*   .eq("is_active", true).single(): data only when exactly one row matches
selectAuthorizedAccount(email, env) ==
    LET rows == {r \in env.accounts : r.email = email /\ r.is_active}
    IN  IF env.db = "ok" /\ Cardinality(rows) = 1
        THEN [error |-> FALSE, found |-> TRUE]
        ELSE [error |-> TRUE, found |-> FALSE]

Denied(msg) == [authorized |-> FALSE, user |-> NoUser, error |-> msg, threw |-> FALSE]

\* The try block of verifyAuth; "threw" marks an exception leaving the block.
verifyAuthTry(header, env) ==
    IF header \in {"absent", "empty"} THEN Denied("No authorization header")
    ELSE IF ~env.configOK THEN Denied("Supabase configuration missing")
    ELSE IF env.provider = "throws"
         THEN [authorized |-> FALSE, user |-> NoUser, error |-> "", threw |-> TRUE]
    ELSE LET got == getUser(header, env) IN
         IF got.error \/ got.user = NoUser THEN Denied("Invalid token")
         ELSE IF ~got.user.hasEmail
                 \/ toLowerCase(got.user.email) # AUTHORIZED_EMAIL_LOWER
              THEN Denied("Account not authorized")
         ELSE IF env.db = "throws"
              THEN [authorized |-> FALSE, user |-> NoUser, error |-> "", threw |-> TRUE]
         ELSE LET acc == selectAuthorizedAccount(got.user.email, env) IN
              IF acc.error \/ ~acc.found THEN Denied("Account not authorized")
              ELSE [authorized |-> TRUE, user |-> got.user, error |-> "", threw |-> FALSE]

\* a verifyAuth that trusts the e-mail comparison and skips the table lookup
verifyAuthNoTable(header, env) ==
    LET r == verifyAuthTry(header, [env EXCEPT !.accounts =
                 {[email |-> e, is_active |-> TRUE] :
                     e \in {AUTHORIZED_EMAIL, UPPER_EMAIL, MIXED_EMAIL}}, !.db = "ok"])
    IN  IF r.threw THEN Denied("Internal server error") ELSE r

\* verifyAuth: the try block, with the catch turning any exception into a result
verifyAuth(header, env) ==
    LET r == verifyAuthTry(header, env)
    IN  IF r.threw THEN Denied("Internal server error") ELSE r

----------------------------------------------------------------------------
(* SpecAuth: verifyAuth over every request header and environment.         *)

\* the value of a variable that a specification does not use
Idle == [called |-> FALSE]

\* the sync service's variables in a specification that does not run it
NoSync ==
    /\ date = Idle /\ upstream = Idle /\ apiConfig = Idle /\ db = Idle
    /\ task = Idle /\ proc = Idle /\ nchanges = Idle

\* the dashboard page's variables in a specification that has no page
NoUi == headerState = Idle /\ hook = Idle /\ fetches = Idle /\ notes = Idle

\* the browser side's variables in a specification of the server
NoPage == provider = Idle /\ client = Idle /\ checks = Idle /\ guard = Idle

\* the variables a specification of the server or of the sync does not use
NoRest == NoPage /\ call = Idle /\ unswept = Idle /\ NoUi

\* The Authorization header of a request: absent, the empty string, or
\* "Bearer <token>" (named by its token; tokBad is a token the provider rejects).
AuthInit ==
    /\ authIn \in [header : {"absent", "empty", "tokBad"} \cup DOMAIN TokenUsers,
                   env : AuthEnvs]
    /\ authOut = [called |-> FALSE, result |-> Denied("")]
    /\ now = 0 /\ lastCleanup = 0 /\ nticks = 0
    /\ store = Idle /\ win = Idle /\ last = Idle /\ resp = Idle /\ usage = Idle
    /\ NoSync /\ NoRest

AuthCall ==
    /\ ~authOut.called
    /\ authOut' = [called |-> TRUE, result |-> verifyAuth(authIn.header, authIn.env)]
    /\ UNCHANGED <<authIn, now, lastCleanup, store, nticks, win, last, resp, usage>>
    /\ UNCHANGED <<syncVars, restVars>>

SpecAuth == AuthInit /\ [][AuthCall]_vars

\* two strings are equal when letter case is ignored
EqualIgnoringCase(x, y) ==
    /\ Len(x) = Len(y)
    /\ \A i \in 1..Len(x) :
          \/ x[i] = y[i]
          \/ \E j \in 1..26 : {x[i], y[i]} = {UpperChars[j], LowerChars[j]}

\* C1: verifyAuth answers authorized: true only when the Authorization header
\* is present, the provider accepted the token and returned a user, the
\* user's e-mail is the allow-listed one up to letter case, and the
\* authorized_accounts table answered with an active row for that e-mail; in
\* every other case, exceptions included, it answers authorized: false with an
\* error string, and no exception leaves it.
C1_VerifyAuthOnlyAllowListed ==
    authOut.called =>
        LET h == authIn.header
            e == authIn.env
            r == authOut.result
        IN  /\ ~r.threw
            /\ r.authorized =>
                  /\ h \notin {"absent", "empty"}
                  /\ e.provider = "ok" /\ h \in DOMAIN TokenUsers
                  /\ r.user = TokenUsers[h]
                  /\ r.user.hasEmail
                  /\ EqualIgnoringCase(r.user.email, AUTHORIZED_EMAIL)
                  /\ e.db = "ok"
                  /\ \E row \in e.accounts : row.email = r.user.email /\ row.is_active
            /\ ~r.authorized => r.error # "" /\ r.user = NoUser

\* verifyAuth authorized a user whose e-mail differs from the allow-listed one
\* in letter case only
C1_Witness ==
    /\ authOut.called
    /\ authOut.result.authorized
    /\ authOut.result.user.email = UPPER_EMAIL

----------------------------------------------------------------------------
(* rate-limit.ts                                                           *)

\* const CLEANUP_INTERVAL = 60000
CLEANUP_INTERVAL == 60000

\* RateLimitPresets (windowMs, maxRequests)
RateLimitPresets ==
    [ strict   |-> [windowMs |-> 15 * 60 * 1000, maxRequests |-> 5],
      standard |-> [windowMs |-> 60 * 1000, maxRequests |-> 100],
      moderate |-> [windowMs |-> 60 * 1000, maxRequests |-> 20],
      generous |-> [windowMs |-> 60 * 1000, maxRequests |-> 200] ]

\* `user:${userId}`
UserKey(userId) == <<"u", "s", "e", "r", ":">> \o userId

\* `ip:${ip}`
IpKey(ip) == <<"i", "p", ":">> \o ip

\* the literal "unknown"
UNKNOWN == <<"u", "n", "k", "n", "o", "w", "n">>

\* The identifiers the store can hold in this model: the users whose e-mail
\* can pass verifyAuth, and the addresses the request headers can name
\* (addresses are the one-character strings "1" and "2").
Keys ==
    {UserKey(TokenUsers[t].id) : t \in {"tokExact", "tokUpper", "tokMixed"}}
    \cup {IpKey(ip) : ip \in {<<"1">>, <<"2">>, UNKNOWN}}

\* store[key] when the key is not in the store
NoEntry == [present |-> FALSE, count |-> 0, resetTime |-> 0]

Max(a, b) == IF a >= b THEN a ELSE b

\* Math.ceil(x / 1000) for an integer x >= 0
CeilDiv1000(x) == (x + 999) \div 1000

\* a sweep that also deletes the entry that expires at this very instant
cleanupExpiredEntriesInclusive(st, lc, t) ==
    IF t - lc < CLEANUP_INTERVAL
    THEN [store |-> st, lastCleanup |-> lc]
    ELSE [store |-> [k \in Keys |->
                       IF st[k].present /\ st[k].resetTime <= t THEN NoEntry ELSE st[k]],
          lastCleanup |-> t]

\* cleanupExpiredEntries(): the store and lastCleanup after the call at time t
cleanupExpiredEntries(st, lc, t) ==
    IF t - lc < CLEANUP_INTERVAL
    THEN [store |-> st, lastCleanup |-> lc]
    ELSE [store |-> [k \in Keys |->
                       IF st[k].present /\ st[k].resetTime < t THEN NoEntry ELSE st[k]],
          lastCleanup |-> t]

\* retryAfter is undefined on success
NoRetryAfter == -1

\* a rateLimit that tests the count before incrementing it
rateLimitTestBeforeIncrement(st, lc, t, key, options) ==
    LET swept == cleanupExpiredEntries(st, lc, t)
        old   == swept.store[key]
        entry == IF ~old.present \/ old.resetTime < t
                 THEN [present |-> TRUE, count |-> 0, resetTime |-> t + options.windowMs]
                 ELSE old
        success == entry.count <= options.maxRequests
        count == entry.count + 1
    IN  [ store |-> [swept.store EXCEPT ![key] = [entry EXCEPT !.count = count]],
          lastCleanup |-> swept.lastCleanup,
          result |-> [ success    |-> success,
                       limit      |-> options.maxRequests,
                       remaining  |-> Max(0, options.maxRequests - count),
                       reset      |-> entry.resetTime,
                       retryAfter |-> IF success THEN NoRetryAfter
                                      ELSE CeilDiv1000(entry.resetTime - t) ] ]

\* rateLimit(identifier, options) called at time t on store st:
\* the store, lastCleanup and the RateLimitResult
rateLimit(st, lc, t, key, options) ==
    LET swept == cleanupExpiredEntries(st, lc, t)
        old   == swept.store[key]
        entry == IF ~old.present \/ old.resetTime < t
                 THEN [present |-> TRUE, count |-> 0, resetTime |-> t + options.windowMs]
                 ELSE old
        count == entry.count + 1
        success == count <= options.maxRequests
    IN  [ store |-> [swept.store EXCEPT ![key] = [entry EXCEPT !.count = count]],
          lastCleanup |-> swept.lastCleanup,
          result |-> [ success    |-> success,
                       limit      |-> options.maxRequests,
                       remaining  |-> Max(0, options.maxRequests - count),
                       reset      |-> entry.resetTime,
                       retryAfter |-> IF success THEN NoRetryAfter
                                      ELSE CeilDiv1000(entry.resetTime - t) ] ]

----------------------------------------------------------------------------
(* The clock, and the fixed window of each identifier as the claims define *)
(* it: it opens with the first call made when no window is open and stays  *)
(* open until windowMs later, that instant included.                       *)

\* how many times the clock advances in one behaviour
MaxTicks == 3

\* how far past its limit one entry's count is driven
MaxOver == 2

\* the amounts the clock advances by, in milliseconds
TickSet == {1, 60 * 1000, 15 * 60 * 1000}

NoWindow == [open |-> FALSE, start |-> 0, calls |-> 0, ok |-> 0,
             denied |-> FALSE, deniedAt |-> 0, retryAfter |-> 0]

\* the window of an identifier after a call at time t with the given result
WindowAfter(w, t, options, result) ==
    LET fresh == ~w.open \/ t > w.start + options.windowMs
        base  == IF fresh THEN [NoWindow EXCEPT !.open = TRUE, !.start = t] ELSE w
    IN  [base EXCEPT !.calls = @ + 1,
                     !.ok = @ + (IF result.success THEN 1 ELSE 0),
                     !.denied = ~result.success,
                     !.deniedAt = t,
                     !.retryAfter = result.retryAfter]

Tick ==
    /\ nticks < MaxTicks
    /\ \E d \in TickSet : now' = now + d
    /\ nticks' = nticks + 1
    /\ UNCHANGED <<authIn, authOut, lastCleanup, store, win, last, resp, usage>>
    /\ UNCHANGED <<syncVars, restVars>>

----------------------------------------------------------------------------
(* SpecRate: direct calls of rateLimit, each identifier under one          *)
(* configuration.                                                          *)

\* the configuration each identifier is limited under in SpecRate
RateConfigs ==
    [ a |-> [key |-> IpKey(<<"1">>), options |-> RateLimitPresets.strict],
      b |-> [key |-> UserKey(<<"u", "1">>), options |-> [windowMs |-> 60 * 1000, maxRequests |-> 1]] ]

RateInit ==
    /\ authIn = Idle /\ authOut = Idle /\ resp = Idle /\ usage = Idle
    /\ NoSync /\ NoRest
    /\ now = 0
    /\ lastCleanup = 0
    /\ store = [k \in Keys |-> NoEntry]
    /\ nticks = 0
    /\ win = [k \in Keys |-> NoWindow]
    /\ last = [called |-> FALSE, key |-> <<>>, at |-> 0,
               options |-> RateLimitPresets.strict,
               result |-> [success |-> TRUE, limit |-> 0, remaining |-> 0,
                           reset |-> 0, retryAfter |-> NoRetryAfter],
               before |-> NoWindow]

CallRateLimit ==
    \E c \in DOMAIN RateConfigs :
        LET key == RateConfigs[c].key
            options == RateConfigs[c].options
            r == rateLimit(store, lastCleanup, now, key, options)
        IN  /\ store[key].count < options.maxRequests + MaxOver
            /\ store' = r.store
            /\ lastCleanup' = r.lastCleanup
            /\ win' = [win EXCEPT ![key] = WindowAfter(@, now, options, r.result)]
            /\ last' = [called |-> TRUE, key |-> key, at |-> now, options |-> options,
                        result |-> r.result, before |-> win[key]]
            /\ UNCHANGED <<authIn, authOut, now, nticks, resp, usage>>
            /\ UNCHANGED <<syncVars, restVars>>

SpecRate == RateInit /\ [][Tick \/ CallRateLimit]_vars

\* C3: for every identifier under its one configuration, at most maxRequests
\* of the rateLimit calls of one window succeed, and every call of that window
\* after the maxRequests-th is denied, whatever the other identifiers do.
C3_AtMostMaxPerWindow ==
    \A c \in DOMAIN RateConfigs :
        LET key == RateConfigs[c].key
            maxRequests == RateConfigs[c].options.maxRequests
        IN  /\ win[key].ok <= maxRequests
            /\ (last.called /\ last.key = key /\ win[key].calls > maxRequests)
                   => ~last.result.success

\* a call made exactly at resetTime, after the other identifier was limited
\* too, is the 7th of its window and is denied with 5 admitted before it
C3_Witness ==
    LET key == RateConfigs.a.key
    IN  /\ last.called /\ last.key = key
        /\ ~last.result.success
        /\ win[key].ok = 5 /\ win[key].calls = 7
        /\ now = win[key].start + RateConfigs.a.options.windowMs
        /\ win[RateConfigs.b.key].calls > 0

\* C7: after a denial that announced retryAfter seconds, the identifier's next
\* call under the same configuration, made retryAfter * 1000 ms or more after
\* the denied one, is admitted.
C7_RetryAfterIsHonoured ==
    (/\ last.called
     /\ last.before.denied
     /\ last.at >= last.before.deniedAt + last.before.retryAfter * 1000)
        => last.result.success

----------------------------------------------------------------------------
(* rate-limit.ts: getRateLimitIdentifier                                   *)

\* forwarded.split(",")[0]
FirstField(s) ==
    IF \E i \in 1..Len(s) : s[i] = ","
    THEN SubSeq(s, 1, (CHOOSE i \in 1..Len(s) :
                          s[i] = "," /\ \A j \in 1..(i - 1) : s[j] # ",") - 1)
    ELSE s

\* String.prototype.trim
RECURSIVE trim(_)
trim(s) ==
    IF s = <<>> THEN s
    ELSE IF Head(s) = " " THEN trim(Tail(s))
    ELSE IF s[Len(s)] = " " THEN trim(SubSeq(s, 1, Len(s) - 1))
    ELSE s

\* an identifier that prefers the address to the user
getRateLimitIdentifierByAddress(request, userId) ==
    IF request.forwarded # <<>> THEN IpKey(trim(FirstField(request.forwarded)))
    ELSE IF request.realIp # <<>> THEN IpKey(request.realIp)
    ELSE IF userId # <<>> THEN UserKey(userId)
    ELSE IpKey(UNKNOWN)

\* getRateLimitIdentifier(request, userId); a header that is absent or empty
\* is <<>>, and so is an undefined userId
getRateLimitIdentifier(request, userId) ==
    IF userId # <<>> THEN UserKey(userId)
    ELSE IpKey(IF request.forwarded # <<>> THEN trim(FirstField(request.forwarded))
               ELSE IF request.realIp # <<>> THEN request.realIp
               ELSE UNKNOWN)

----------------------------------------------------------------------------
(* The route handlers. A handler's answer records its status and what it   *)
(* did: verifyAuth called and its verdict, an upstream API call made, data  *)
(* or configuration put in the body, signInWithPassword called, the sync    *)
(* it ran.                                                                  *)

NoAnswer ==
    [status |-> 0, authCalled |-> FALSE, authorized |-> FALSE, upstream |-> FALSE,
     data |-> FALSE, signIn |-> FALSE, ran |-> "none"]

Answer(status) == [NoAnswer EXCEPT !.status = status]

\* the answer of a handler whose verifyAuth call denied the request
Unauthorized(auth) ==
    [Answer(IF auth.error = "Account not authorized" THEN 403 ELSE 401)
        EXCEPT !.authCalled = TRUE]

\* a handler's answer once its own verifyAuth call authorized the request
Authorized(answer) == [answer EXCEPT !.authCalled = TRUE, !.authorized = TRUE]

\* GET /api/perfexcrm: no verifyAuth call
GET_perfexcrm(request) ==
    CASE request.input = "noconfig" -> Answer(500)
      [] request.input = "unknown"  -> Answer(400)
      [] request.input = "upfail"   -> [Answer(500) EXCEPT !.upstream = TRUE]
      [] OTHER -> [Answer(200) EXCEPT !.upstream = TRUE, !.data = TRUE]

\* GET /api/uchat as app/api/uchat/route.ts has it: no verifyAuth call; the
\* catch reports which configuration values are set
GET_uchat(request) ==
    CASE request.input = "noconfig" -> Answer(500)
      [] request.input = "unknown"  -> Answer(400)
      [] request.input = "upfail"   ->
            [Answer(500) EXCEPT !.upstream = TRUE, !.data = TRUE]
      [] OTHER -> [Answer(200) EXCEPT !.upstream = TRUE, !.data = TRUE]

\* handleGet of the rate-limited /api/uchat route
handleGet(request) ==
    LET auth == verifyAuth(request.header, request.env2)
    IN  IF ~auth.authorized THEN Unauthorized(auth)
        ELSE Authorized(GET_uchat(request))

\* a handlePost that runs syncAll unless the source is "perfexcrm"
syncOfPerfexcrmOnly(source) ==
    IF source = "perfexcrm" THEN "syncPerfexCRM" ELSE "syncAll"

\* handlePost: const source = body.source || "all", and the sync it selects
syncOf(source) ==
    LET chosen == IF source = "" THEN "all" ELSE source
    IN  IF chosen = "perfexcrm" THEN "syncPerfexCRM"
        ELSE IF chosen = "uchat" THEN "syncUchat"
        ELSE "syncAll"

\* handlePost of /api/sync; the sync never throws, request.json() may
handlePost(request) ==
    LET auth == verifyAuth(request.header, request.env2)
    IN  IF ~auth.authorized THEN Unauthorized(auth)
        ELSE IF request.input = "badbody" THEN Authorized(Answer(500))
        ELSE Authorized([Answer(200) EXCEPT
                 !.upstream = TRUE, !.data = TRUE,
                 !.ran = syncOf(request.input)])

\* handleLogin of /api/auth/login
handleLogin(request) ==
    CASE request.input = "noconfig" -> Answer(500)
      [] request.input = "badbody"  -> Answer(500)
      [] request.input = "missing"  -> Answer(400)
      [] request.input = "rejected" -> [Answer(401) EXCEPT !.signIn = TRUE]
      [] OTHER -> [Answer(200) EXCEPT !.signIn = TRUE, !.data = TRUE]

\* GET /api/test as app/api/test/route.ts has it: no verifyAuth call
GET_test(request) == [Answer(200) EXCEPT !.data = TRUE]

\* handleTest of the rate-limited /api/test route
handleTest(request) ==
    LET auth == verifyAuth(request.header, request.env2)
    IN  IF ~auth.authorized THEN Unauthorized(auth)
        ELSE Authorized([Answer(200) EXCEPT !.data = TRUE])

\* GET /api/debug-perfexcrm as app/api/debug-perfexcrm/route.ts has it
GET_debug_perfexcrm(request) ==
    LET auth == verifyAuth(request.header, request.env2)
    IN  IF ~auth.authorized THEN Unauthorized(auth)
        ELSE IF request.input = "noconfig"
             THEN Authorized([Answer(200) EXCEPT !.data = TRUE])
        ELSE Authorized([Answer(200) EXCEPT !.upstream = TRUE, !.data = TRUE])

\* The entry points: the exported handler of each route file, the wrapped
\* handler and the withRateLimit configuration where the route has one.
Routes ==
    [ perfexcrm       |-> [wrapped |-> FALSE],
      uchat           |-> [wrapped |-> FALSE],
      test            |-> [wrapped |-> FALSE],
      debug_perfexcrm |-> [wrapped |-> FALSE],
      uchat_limited   |-> [wrapped |-> TRUE, requireAuth |-> TRUE,
                           windowMs |-> RateLimitPresets.moderate.windowMs,
                           maxRequests |-> RateLimitPresets.moderate.maxRequests],
      test_limited    |-> [wrapped |-> TRUE, requireAuth |-> TRUE,
                           windowMs |-> RateLimitPresets.strict.windowMs,
                           maxRequests |-> RateLimitPresets.strict.maxRequests],
      sync            |-> [wrapped |-> TRUE, requireAuth |-> TRUE,
                           windowMs |-> RateLimitPresets.strict.windowMs,
                           maxRequests |-> RateLimitPresets.strict.maxRequests],
      login           |-> [wrapped |-> TRUE, requireAuth |-> FALSE,
                           windowMs |-> RateLimitPresets.strict.windowMs,
                           maxRequests |-> RateLimitPresets.strict.maxRequests] ]

\* the handler a route runs (unwrapped) or hands to withRateLimit (wrapped)
handler(request) ==
    CASE request.route = "perfexcrm"       -> GET_perfexcrm(request)
      [] request.route = "uchat"           -> GET_uchat(request)
      [] request.route = "test"            -> GET_test(request)
      [] request.route = "debug_perfexcrm" -> GET_debug_perfexcrm(request)
      [] request.route = "uchat_limited"   -> handleGet(request)
      [] request.route = "test_limited"    -> handleTest(request)
      [] request.route = "sync"            -> handlePost(request)
      [] request.route = "login"           -> handleLogin(request)

----------------------------------------------------------------------------
(* rate-limit-middleware.ts: withRateLimit                                 *)

NoResult ==
    [success |-> TRUE, limit |-> 0, remaining |-> 0, reset |-> 0,
     retryAfter |-> NoRetryAfter]

\* What one request did: the response (status, whether the X-RateLimit-*
\* headers are set), the handler's answer when it ran, the verifyAuth calls
\* made and whether all of them authorized, and the rateLimit call if any.
Outcome(st, lc, status, headers, ran, answer, authCalls, authorized, key, result) ==
    [ store |-> st, lastCleanup |-> lc, status |-> status,
      rateHeaders |-> headers, handlerRan |-> ran, answer |-> answer,
      authCalls |-> authCalls, authorized |-> authorized,
      checked |-> (key # <<>>), key |-> key, result |-> result ]

\* a withRateLimit that runs the handler before it looks at the verdict
withRateLimitHandlerFirst(request, config, st, lc, t) ==
    LET auth == verifyAuth(request.header, request.env1)
    IN  IF config.requireAuth /\ (~auth.authorized \/ auth.user = NoUser)
        THEN Outcome(st, lc, 401, FALSE, FALSE, NoAnswer, 1, FALSE, <<>>, NoResult)
        ELSE LET userId == IF config.requireAuth THEN auth.user.id ELSE <<>>
                 identifier == getRateLimitIdentifier(request, userId)
                 r == rateLimit(st, lc, t, identifier, config)
                 n == IF config.requireAuth THEN 1 ELSE 0
                 a == handler(request)
             IN  Outcome(r.store, r.lastCleanup,
                         IF r.result.success THEN a.status ELSE 429, TRUE, TRUE, a,
                         n + (IF a.authCalled THEN 1 ELSE 0),
                         (~config.requireAuth \/ auth.authorized)
                            /\ (a.authCalled => a.authorized)
                            /\ (config.requireAuth \/ a.authCalled),
                         identifier, r.result)

\* withRateLimit(request, config, handler) at time t on store st
withRateLimit(request, config, st, lc, t) ==
    LET auth == verifyAuth(request.header, request.env1)
    IN  IF config.requireAuth /\ (~auth.authorized \/ auth.user = NoUser)
        THEN Outcome(st, lc, 401, FALSE, FALSE, NoAnswer, 1, FALSE, <<>>, NoResult)
        ELSE LET userId == IF config.requireAuth THEN auth.user.id ELSE <<>>
                 identifier == getRateLimitIdentifier(request, userId)
                 r == rateLimit(st, lc, t, identifier, config)
                 n == IF config.requireAuth THEN 1 ELSE 0
             IN  IF ~r.result.success
                 THEN Outcome(r.store, r.lastCleanup, 429, TRUE, FALSE, NoAnswer,
                              n, config.requireAuth, identifier, r.result)
                 ELSE LET a == handler(request)
                      IN  Outcome(r.store, r.lastCleanup, a.status, TRUE, TRUE, a,
                                  n + (IF a.authCalled THEN 1 ELSE 0),
                                  (a.authCalled => a.authorized)
                                     /\ (config.requireAuth \/ a.authCalled),
                                  identifier, r.result)

\* the exported GET/POST of a route
serve(request, st, lc, t) ==
    IF Routes[request.route].wrapped
    THEN withRateLimit(request, Routes[request.route], st, lc, t)
    ELSE LET a == handler(request)
         IN  Outcome(st, lc, a.status, FALSE, TRUE, a,
                     IF a.authCalled THEN 1 ELSE 0, a.authCalled /\ a.authorized,
                     <<>>, NoResult)

----------------------------------------------------------------------------
(* SpecHttp: requests to the routes other than the login, one request      *)
(* served per step.                                                        *)

\* how many counted requests the store holds at a time
MaxLoad == 7

RECURSIVE SumCounts(_, _)
SumCounts(st, ks) ==
    IF ks = {} THEN 0
    ELSE LET k == CHOOSE x \in ks : TRUE
         IN  st[k].count + SumCounts(st, ks \ {k})

\* how many times the clock advances in one behaviour of SpecHttp
MaxHttpTicks == 2

\* how many requests to /api/sync are counted
MaxCounted == 6

\* environments of a verifyAuth call: the seeded table, the account deactivated
HttpEnvs ==
    { [configOK |-> TRUE, provider |-> "ok", db |-> "ok",
       accounts |-> {[email |-> AUTHORIZED_EMAIL, is_active |-> a]}] : a \in BOOLEAN }

\* x-forwarded-for and x-real-ip values (<<>>: header absent)

\* The requests sent to a route: the Authorization header, the environments
\* of the wrapper's and the handler's verifyAuth call, the address headers,
\* and what decides the handler's branches (the body, the query, the
\* upstream). What a route never reads is held fixed: the Authorization
\* header and the environments on a route that never calls verifyAuth, the
\* address headers on a route limited by user id.
RequestsOf(route) ==
    LET good == CHOOSE e \in HttpEnvs : \A r \in e.accounts : r.is_active
    IN  CASE route \in {"perfexcrm", "uchat"} ->
                [route : {route}, header : {"absent"}, env1 : {good},
                 env2 : {good}, forwarded : {<<>>}, realIp : {<<>>},
                 input : {"ok", "noconfig", "unknown", "upfail"}]
          [] route = "test" ->
                [route : {route}, header : {"absent"}, env1 : {good},
                 env2 : {good}, forwarded : {<<>>}, realIp : {<<>>},
                 input : {"ok"}]
          [] route = "login" ->
                [route : {route}, header : {"absent"}, env1 : {good}, env2 : {good},
                 forwarded : {<<>>, <<" ", "1", ",", " ", "2">>},
                 realIp : {<<>>, <<"1">>},
                 input : {"ok", "badbody", "missing", "rejected"}]
          [] route = "debug_perfexcrm" ->
                [route : {route}, header : {"absent", "tokBad", "tokOther", "tokExact"},
                 env1 : {good}, env2 : HttpEnvs, forwarded : {<<>>}, realIp : {<<>>},
                 input : {"ok", "noconfig"}]
          [] route = "sync" ->
                [route : {route}, header : {"absent", "tokBad", "tokOther", "tokExact"},
                 env1 : HttpEnvs, env2 : HttpEnvs, forwarded : {<<>>},
                 realIp : {<<>>}, input : {"all", "perfexcrm", "badbody"}]
          [] OTHER ->
                [route : {route}, header : {"absent", "tokOther", "tokExact"},
                 env1 : HttpEnvs, env2 : HttpEnvs, forwarded : {<<>>},
                 realIp : {<<>>}, input : {"ok"}]

HttpInit ==
    /\ authIn = Idle /\ authOut = Idle /\ last = Idle
    /\ NoSync /\ NoRest
    /\ now = 0
    /\ lastCleanup = 0
    /\ store = [k \in Keys |-> NoEntry]
    /\ nticks = 0
    /\ win = [k \in Keys |-> NoWindow]
    /\ resp = [called |-> FALSE]
    /\ usage = 0

\* one request to one of the given routes, served to its response
RequestTo(routes) ==
    \E route \in routes :
      \E request \in RequestsOf(route) :
        \E out \in {serve(request, store, lastCleanup, now)} :
            /\ out.checked => SumCounts(store, Keys) < MaxLoad
            /\ store' = out.store
            /\ lastCleanup' = out.lastCleanup
            /\ win' = IF out.checked /\ route = "login"
                      THEN [win EXCEPT ![out.key] =
                              WindowAfter(@, now, Routes[route], out.result)]
                      ELSE win
            /\ usage' = IF out.checked /\ route = "sync" /\ usage < MaxCounted
                        THEN usage + 1 ELSE usage
            /\ resp' = [called |-> TRUE, route |-> route, status |-> out.status,
                        rateHeaders |-> out.rateHeaders,
                        handlerRan |-> out.handlerRan,
                        upstream |-> out.answer.upstream, data |-> out.answer.data,
                        signIn |-> out.answer.signIn, ran |-> out.answer.ran,
                        authorized |-> out.authorized,
                        authError |-> IF route = "sync"
                                      THEN verifyAuth(request.header, request.env1).error
                                      ELSE "",
                        checked |-> out.checked, key |-> out.key,
                        success |-> out.result.success,
                        retryAfter |-> out.result.retryAfter]
            /\ UNCHANGED <<authIn, authOut, now, nticks, last>>
            /\ UNCHANGED <<syncVars, restVars>>

\* the clock of SpecHttp
HttpTick ==
    /\ nticks < MaxHttpTicks
    /\ \E d \in TickSet : now' = now + d
    /\ nticks' = nticks + 1
    /\ UNCHANGED <<authIn, authOut, lastCleanup, store, win, last, resp, usage>>
    /\ UNCHANGED <<syncVars, restVars>>

\* requests to the routes that are public or answer to the signed-in user
SpecHttp ==
    /\ HttpInit
    /\ [][HttpTick \/ RequestTo(DOMAIN Routes \ {"login"})]_vars

\* the handlers of the paths the security notes list as protected
ProtectedRoutes ==
    {"perfexcrm", "uchat", "uchat_limited", "sync", "debug_perfexcrm", "test",
     "test_limited"}

\* C2: a protected route answers 401 or 403, calls no upstream API and returns
\* neither configuration nor data, unless verifyAuth authorized the request.
C2_ProtectedRoutesRequireAuth ==
    (resp.called /\ resp.route \in ProtectedRoutes /\ ~resp.authorized)
        => /\ resp.status \in {401, 403}
           /\ ~resp.upstream
           /\ ~resp.data

\* C4: /api/sync enforces its own limit: a user who has sent no more than 5
\* requests to /api/sync (so no more than 5 in any 15-minute window) is not
\* answered 429 by /api/sync, whatever the user sent to the other routes.
C4_SyncLimitIsItsOwn ==
    (resp.called /\ resp.route = "sync" /\ usage <= RateLimitPresets.strict.maxRequests)
        => resp.status # 429

\* C6: every response of a route wrapped in withRateLimit carries the
\* X-RateLimit-Limit, X-RateLimit-Remaining and X-RateLimit-Reset headers.
C6_AllResponsesCarryRateHeaders ==
    (resp.called /\ Routes[resp.route].wrapped) => resp.rateHeaders

----------------------------------------------------------------------------
(* SpecLogin: requests to POST /api/auth/login, limited by address.        *)

SpecLogin == HttpInit /\ [][HttpTick \/ RequestTo({"login"})]_vars

----------------------------------------------------------------------------
(* data-sync.ts: DataSyncService, the upstream clients it calls and the     *)
(* tables it writes. A list is a sequence; a value the code only passes on  *)
(* is a tag.                                                                *)

\* the variables of the other specifications
serverVars == <<authIn, authOut, now, lastCleanup, store, nticks, win, last, resp, usage>>

Sources == {"perfexcrm", "uchat"}


\* how many invocations of the service one behaviour has
MaxRuns == 2

\* the last UTC date of a behaviour, the first being 1
MaxDays == 2

\* how many times the upstream APIs change their answers in one behaviour
MaxChanges == 1

\* What the PerfexCRM API holds, by version: whether it has a statistics
\* endpoint and what that answers, and its customers, invoices and leads.
\* An invoice may lack its total.
PerfexData ==
    << [statistics |-> [found |-> TRUE, value |-> [total_customers |-> 1]],
        customers  |-> <<"c1">>,
        invoices   |-> <<[id |-> "i1", hasTotal |-> TRUE, total |-> 5]>>,
        leads      |-> <<>>],
       [statistics |-> [found |-> FALSE],
        customers  |-> <<"c1", "c2">>,
        invoices   |-> <<[id |-> "i1", hasTotal |-> TRUE, total |-> 5],
                         [id |-> "i2", hasTotal |-> FALSE, total |-> 0]>>,
        leads      |-> <<"l1">>] >>

\* What the Uchat API holds, by version: the flow summary and the
\* conversations data.
UchatData ==
    << [flowSummary   |-> [total_bot_users |-> 3, day_active_bot_users |-> 0,
                           avg_agent_response_time |-> 7],
        conversations |-> <<"k1">>],
       [flowSummary   |-> [total_bot_users |-> 4, day_active_bot_users |-> 2,
                           avg_agent_response_time |-> 7],
        conversations |-> <<"k1", "k2">>] >>

\* An upstream API is the version of its data, and whether it answers at
\* all; what it may turn into: newer data, down, or up again
ChangesOf(api) ==
    {a \in [version : 1..Len(PerfexData), up : BOOLEAN] :
        \/ a.version = api.version + 1 /\ a.up = api.up
        \/ a.version = api.version /\ a.up # api.up}

\* the settlement of an awaited client call
Throws(message) == [throws |-> TRUE, message |-> message]
Returns(value) == [throws |-> FALSE, value |-> value]

\* the first n elements of a list: what an API answers to ?limit=n
Take(list, n) == SubSeq(list, 1, IF n <= Len(list) THEN n ELSE Len(list))

\* PerfexCRMClient.getCustomers / getInvoices / getLeads: the list, or the
\* last error once every endpoint variation failed
PerfexList(api, what) ==
    IF api.up THEN Returns(PerfexData[api.version][what])
    ELSE Throws("PerfexCRM: No response from server. Please check your connection.")

\* PerfexCRMClient.getStatistics: the statistics endpoint's answer; without
\* such an endpoint the counts of the three lists asked with limit 1
PerfexStatistics(api) ==
    LET data == PerfexData[api.version]
    IN  IF ~api.up
        THEN Throws("PerfexCRM: No response from server. Please check your connection.")
        ELSE IF data.statistics.found THEN Returns(data.statistics.value)
        ELSE Returns([total_customers |-> Len(Take(data.customers, 1)),
                      total_invoices  |-> Len(Take(data.invoices, 1)),
                      total_leads     |-> Len(Take(data.leads, 1))])

\* UchatClient.getStatistics: the flow summary mapped to the dashboard's
\* fields; zeros when the request and its fallback fail. It never throws.
UchatStatistics(api) ==
    IF api.up
    THEN LET flowSummary == UchatData[api.version].flowSummary
         IN  Returns([total_chats           |-> flowSummary.total_bot_users,
                      active_chats          |-> flowSummary.day_active_bot_users,
                      average_response_time |-> flowSummary.avg_agent_response_time,
                      satisfaction_score    |-> 0])
    ELSE Returns([total_chats |-> 0, active_chats |-> 0,
                  average_response_time |-> 0, satisfaction_score |-> 0])

\* UchatClient.getActiveChats: the conversations data, [] when that fails
getActiveChats(api) ==
    IF api.up THEN Returns(UchatData[api.version].conversations) ELSE Returns(<<>>)

\* UchatClient.getChats: always []
getChats == Returns(<<>>)

\* a || b on numbers
OrElse(a, b) == IF a # 0 THEN a ELSE b

\* invoices.reduce((sum, inv) => sum + (inv.total || 0), 0)
RECURSIVE totalRevenue(_)
totalRevenue(invoices) ==
    IF invoices = <<>> THEN 0
    ELSE (IF Head(invoices).hasTotal THEN Head(invoices).total ELSE 0)
         + totalRevenue(Tail(invoices))

----------------------------------------------------------------------------
(* The database: 001_initial_schema.sql and the upsert of supabase-js.      *)

MetricsTable == [perfexcrm |-> "perfexcrm_metrics", uchat |-> "uchat_metrics"]

PrimaryKey == {"id"}

\* the UNIQUE constraint of each table, once the daily migration has run
UniqueColumns ==
    [ perfexcrm_metrics   |-> {"metric_type", "metric_key", "metric_date"},
      uchat_metrics       |-> {"metric_type", "metric_key", "metric_date"},
      aggregated_insights |-> {"insight_type", "insight_key", "source"} ]

\* the onConflict option without the date
onConflictTypeKey == {"metric_type", "metric_key"}

\* the onConflict option of the metrics upserts
onConflict == {"metric_type", "metric_key", "metric_date"}

\* an upsert called without the onConflict option
NoOnConflict == {}


\* row r has the given values in all of the columns cols
Matches(r, values, cols) ==
    \A c \in cols : c \in DOMAIN values /\ r[c] = values[c]

\* an upsert that inserts whatever the table holds
upsertAppend(database, table, values, conflict) ==
    [ db |-> [rows   |-> [database.rows EXCEPT ![table] =
                             @ \cup {values @@ [id |-> database.nextId[table]]}],
              nextId |-> [database.nextId EXCEPT ![table] = @ + 1]],
      error |-> FALSE ]

\* from(table).upsert(values, { onConflict }): INSERT ... ON CONFLICT (target)
\* DO UPDATE, the target being the primary key when the option is absent.
\* The id is generated, so an upsert that gives no id never meets a row on
\* the primary key. A target that is no constraint of the table, and an
\* insert that breaks the UNIQUE constraint, are answered with an error in
\* the result, and the table is left as it is.
upsert(database, table, values, conflict) ==
    LET rows   == database.rows[table]
        target == IF conflict = NoOnConflict THEN PrimaryKey ELSE conflict
        hit    == {r \in rows : Matches(r, values, target)}
    IN  IF target \notin {PrimaryKey, UniqueColumns[table]}
        THEN [db |-> database, error |-> TRUE]
        ELSE IF hit # {}
        THEN [db |-> [database EXCEPT !.rows[table] =
                         (rows \ hit) \cup {values @@ r : r \in hit}],
              error |-> FALSE]
        ELSE IF \E r \in rows : Matches(r, values, UniqueColumns[table])
        THEN [db |-> database, error |-> TRUE]
        ELSE [db |-> [rows   |-> [database.rows EXCEPT ![table] =
                                     rows \cup {values @@ [id |-> database.nextId[table]]}],
                      nextId |-> [database.nextId EXCEPT ![table] = @ + 1]],
              error |-> FALSE]

\* .select("insight_value").eq("source", s).eq("insight_type", t).single():
\* the row when exactly one matches, data null otherwise
single(database, source, type) ==
    LET found == {r \in database.rows.aggregated_insights :
                     r.source = source /\ r.insight_type = type}
    IN  IF Cardinality(found) = 1
        THEN [data |-> TRUE,
              insight_value |-> (CHOOSE r \in found : TRUE).insight_value]
        ELSE [data |-> FALSE]

----------------------------------------------------------------------------
(* The rows syncPerfexCRM and syncUchat write, from the date read at the    *)
(* start of the call and the answers fetched so far.                        *)

PerfexStatisticsRow(today, got) ==
    [metric_type |-> "statistics", metric_key |-> "dashboard",
     metric_date |-> today, metric_value |-> got.statistics]

CustomersRow(today, got) ==
    [metric_type |-> "customers", metric_key |-> "total", metric_date |-> today,
     metric_value |-> [count |-> Len(got.customers), data |-> got.customers]]

InvoicesRow(today, got) ==
    [metric_type |-> "invoices", metric_key |-> "summary", metric_date |-> today,
     metric_value |-> [count |-> Len(got.invoices),
                       total_revenue |-> totalRevenue(got.invoices),
                       data |-> got.invoices]]

LeadsRow(today, got) ==
    [metric_type |-> "leads", metric_key |-> "total", metric_date |-> today,
     metric_value |-> [count |-> Len(got.leads), data |-> got.leads]]

SalesSummary(got, t) ==
    [insight_type |-> "sales_summary", insight_key |-> "perfexcrm",
     insight_value |-> [total_customers |-> Len(got.customers),
                        total_invoices  |-> Len(got.invoices),
                        total_revenue   |-> totalRevenue(got.invoices),
                        total_leads     |-> Len(got.leads),
                        updated_at      |-> t],
     source |-> "perfexcrm"]

UchatStatisticsRow(today, got) ==
    [metric_type |-> "statistics", metric_key |-> "dashboard",
     metric_date |-> today, metric_value |-> got.statistics]

ActiveChatsRow(today, got) ==
    [metric_type |-> "chats", metric_key |-> "active", metric_date |-> today,
     metric_value |-> [count |-> Len(got.activeChats), data |-> got.activeChats]]

AllChatsRow(today, got) ==
    [metric_type |-> "chats", metric_key |-> "total", metric_date |-> today,
     metric_value |-> [count |-> Len(got.allChats), data |-> got.allChats]]

ChatSummary(got, t) ==
    [insight_type |-> "chat_summary", insight_key |-> "uchat",
     insight_value |->
        [total_chats  |-> OrElse(got.statistics.total_chats, Len(got.allChats)),
         active_chats |-> OrElse(got.statistics.active_chats, Len(got.activeChats)),
         average_response_time |-> got.statistics.average_response_time,
         satisfaction_score    |-> got.statistics.satisfaction_score,
         updated_at   |-> t],
     source |-> "uchat"]

\* { ...perfexcrmData.data.insight_value, ...uchatData.data.insight_value,
\*   updated_at }
CombinedSummary(perfexcrmData, uchatData, t) ==
    [insight_type |-> "combined_summary", insight_key |-> "dashboard",
     insight_value |-> ("updated_at" :> t) @@ uchatData.insight_value
                          @@ perfexcrmData.insight_value,
     source |-> "combined"]

----------------------------------------------------------------------------
(* The calls. task[i] is the i-th invocation of the service (syncAll, or    *)
(* one source's sync as POST /api/sync runs it); proc[i][src] is the call   *)
(* of syncPerfexCRM or syncUchat it made, at one of its awaits.             *)

\* a SyncResult with success: false; the timestamp is kept to the date
Failed(source, error, t) ==
    [success |-> FALSE, source |-> source, error |-> error, timestamp |-> t]

Pending == [settled |-> "pending"]
Fulfilled(value) == [settled |-> "fulfilled", value |-> value]
Rejected(reason) == [settled |-> "rejected", reason |-> reason]

\* a sync whose catch block throws the error on
catchRethrows(source, error, t) == Rejected(error.message)

\* the catch block of syncPerfexCRM and of syncUchat
catch(source, error, t) == Fulfilled(Failed(source, error.message, t))

\* what a call has written when it returns: its metrics table and its rows
\* of aggregated_insights
Snapshot(src, database) ==
    [metrics  |-> database.rows[MetricsTable[src]],
     insights |-> {r \in database.rows.aggregated_insights : r.source = src}]

NoProc ==
    [pc |-> "idle", today |-> 0, got |-> [n \in {} |-> 0], outcome |-> Pending,
     after |-> [metrics |-> {}, insights |-> {}], unstored |-> FALSE]

NoTask ==
    [op |-> "none", source |-> "", pc |-> "idle", order |-> <<>>,
     outcome |-> Pending,
     perfexcrmData |-> [data |-> FALSE], uchatData |-> [data |-> FALSE]]

\* the call of src in invocation i, a local set from a fetched answer
Fetched(i, src, next, name, value) ==
    [proc EXCEPT ![i][src].pc = next, ![i][src].got = (name :> value) @@ @]

\* the call of src in invocation i, returned or thrown
Settled(i, src, outcome, database) ==
    [proc EXCEPT ![i][src].pc = "done", ![i][src].outcome = outcome,
                 ![i][src].after = Snapshot(src, database)]

\* syncPerfexCRM / syncUchat up to the first await: the configuration check
\* and the date
Begin(src) ==
    LET ConfigurationMissing ==
            [perfexcrm |-> "PerfexCRM API configuration is missing",
             uchat     |-> "Uchat API configuration is missing"]
    IN  IF ~apiConfig[src]
        THEN [NoProc EXCEPT !.pc = "done",
                 !.outcome = Fulfilled(Failed(src, ConfigurationMissing[src], date)),
                 !.after = Snapshot(src, db)]
        ELSE [NoProc EXCEPT !.pc = "getStatistics", !.today = date]

SyncInit ==
    /\ authIn = Idle /\ authOut = Idle /\ now = Idle /\ lastCleanup = Idle
    /\ store = Idle /\ nticks = Idle /\ win = Idle /\ last = Idle
    /\ resp = Idle /\ usage = Idle
    /\ NoRest
    /\ date = 1
    /\ upstream = [src \in Sources |-> [version |-> 1, up |-> TRUE]]
    /\ apiConfig \in [Sources -> BOOLEAN]
    \* the rows of each table, and the id its next inserted row gets
    /\ db = [rows |-> [t \in DOMAIN UniqueColumns |-> {}], nextId |-> [t \in DOMAIN UniqueColumns |-> 1]]
    /\ task = [i \in 1..MaxRuns |-> NoTask]
    /\ proc = [i \in 1..MaxRuns |-> [src \in Sources |-> NoProc]]
    /\ nchanges = 0

\* An invocation, by a POST /api/sync whose source selects op, starts once
\* the one before it has returned. The calls it makes run to their first
\* await before it awaits them. The source values of a body: "" is a body
\* without source.
Start(op, calls) ==
    \E i \in 1..MaxRuns : \E source \in {"perfexcrm", "uchat", "all", "", "other"} :
        /\ syncOf(source) = op
        /\ task[i].pc = "idle"
        /\ \A j \in 1..(i - 1) : task[j].pc = "returned"
        /\ LET begun == [src \in Sources |->
                            IF \E n \in 1..Len(calls) : calls[n] = src
                            THEN Begin(src) ELSE NoProc]
           IN  /\ proc' = [proc EXCEPT ![i] = begun]
               /\ task' = [task EXCEPT ![i] =
                             [NoTask EXCEPT !.op = op, !.source = source,
                                 !.pc = "awaiting",
                                 !.order = SelectSeq(calls,
                                             LAMBDA src : begun[src].pc = "done")]]
        /\ UNCHANGED <<date, upstream, apiConfig, db, nchanges>>
        /\ UNCHANGED <<serverVars, restVars>>

\* POST /api/sync with source "perfexcrm", with source "uchat", and with
\* another source: syncAll(), which is
\* Promise.all([this.syncPerfexCRM(), this.syncUchat()])
CallSync ==
    \/ Start("syncPerfexCRM", <<"perfexcrm">>)
    \/ Start("syncUchat", <<"uchat">>)
    \/ Start("syncAll", <<"perfexcrm", "uchat">>)

\* an awaited client call of src settles: the answer becomes a local, a
\* thrown error goes to the catch block
Await(src, at, next, name, response) ==
    \E i \in 1..MaxRuns :
        /\ proc[i][src].pc = at
        /\ IF response.throws
           THEN /\ proc' = Settled(i, src, catch(src, response, date), db)
                /\ task' = [task EXCEPT ![i].order = Append(@, src)]
           ELSE /\ proc' = Fetched(i, src, next, name, response.value)
                /\ task' = task
        /\ UNCHANGED <<date, upstream, apiConfig, db, nchanges>>
        /\ UNCHANGED <<serverVars, restVars>>

\* an awaited upsert of src settles; its result is not looked at (unstored
\* notes an error in it). After the last one the call returns the SyncResult
\* with success: true.
Store(i, src, at, next, table, values, conflict) ==
    /\ proc[i][src].pc = at
    /\ LET out == upsert(db, table, values, conflict)
           Succeeded(source, t) ==
               [success |-> TRUE, source |-> source, timestamp |-> t]
           reported == [proc EXCEPT ![i][src].unstored = @ \/ out.error]
       IN  /\ db' = out.db
           /\ IF next = "done"
              THEN /\ proc' = [Settled(i, src, Fulfilled(Succeeded(src, date)), out.db)
                                 EXCEPT ![i][src].unstored = reported[i][src].unstored]
                   /\ task' = [task EXCEPT ![i].order = Append(@, src)]
              ELSE /\ proc' = [reported EXCEPT ![i][src].pc = next]
                   /\ task' = task
    /\ UNCHANGED <<date, upstream, apiConfig, nchanges>>
    /\ UNCHANGED <<serverVars, restVars>>



\* one step of a syncPerfexCRM call: an awaited client call settles or an
\* awaited upsert does, in the order of the code (statistics, customers,
\* invoices, leads, and the sales_summary insight last)
syncPerfexCRM ==
    \/ Await("perfexcrm", "getStatistics", "upsertStatistics", "statistics",
             PerfexStatistics(upstream.perfexcrm))
    \/ \E i \in 1..MaxRuns :
           Store(i, "perfexcrm", "upsertStatistics", "getCustomers", "perfexcrm_metrics",
                 PerfexStatisticsRow(proc[i].perfexcrm.today, proc[i].perfexcrm.got), onConflict)
    \/ Await("perfexcrm", "getCustomers", "upsertCustomers", "customers",
             PerfexList(upstream.perfexcrm, "customers"))
    \/ \E i \in 1..MaxRuns :
           Store(i, "perfexcrm", "upsertCustomers", "getInvoices", "perfexcrm_metrics",
                 CustomersRow(proc[i].perfexcrm.today, proc[i].perfexcrm.got), onConflict)
    \/ Await("perfexcrm", "getInvoices", "upsertInvoices", "invoices",
             PerfexList(upstream.perfexcrm, "invoices"))
    \/ \E i \in 1..MaxRuns :
           Store(i, "perfexcrm", "upsertInvoices", "getLeads", "perfexcrm_metrics",
                 InvoicesRow(proc[i].perfexcrm.today, proc[i].perfexcrm.got), onConflict)
    \/ Await("perfexcrm", "getLeads", "upsertLeads", "leads",
             PerfexList(upstream.perfexcrm, "leads"))
    \/ \E i \in 1..MaxRuns :
           Store(i, "perfexcrm", "upsertLeads", "upsertInsight", "perfexcrm_metrics",
                 LeadsRow(proc[i].perfexcrm.today, proc[i].perfexcrm.got), onConflict)
    \/ \E i \in 1..MaxRuns :
           Store(i, "perfexcrm", "upsertInsight", "done", "aggregated_insights",
                 SalesSummary(proc[i].perfexcrm.got, date), NoOnConflict)


\* one step of a syncUchat call: statistics, active chats, all chats, and the
\* chat_summary insight last
syncUchat ==
    \/ Await("uchat", "getStatistics", "upsertStatistics", "statistics",
             UchatStatistics(upstream.uchat))
    \/ \E i \in 1..MaxRuns :
           Store(i, "uchat", "upsertStatistics", "getActiveChats", "uchat_metrics",
                 UchatStatisticsRow(proc[i].uchat.today, proc[i].uchat.got), onConflict)
    \/ Await("uchat", "getActiveChats", "upsertActiveChats", "activeChats",
             getActiveChats(upstream.uchat))
    \/ \E i \in 1..MaxRuns :
           Store(i, "uchat", "upsertActiveChats", "getChats", "uchat_metrics",
                 ActiveChatsRow(proc[i].uchat.today, proc[i].uchat.got), onConflict)
    \/ Await("uchat", "getChats", "upsertAllChats", "allChats", getChats)
    \/ \E i \in 1..MaxRuns :
           Store(i, "uchat", "upsertAllChats", "upsertInsight", "uchat_metrics",
                 AllChatsRow(proc[i].uchat.today, proc[i].uchat.got), onConflict)
    \/ \E i \in 1..MaxRuns :
           Store(i, "uchat", "upsertInsight", "done", "aggregated_insights",
                 ChatSummary(proc[i].uchat.got, date), NoOnConflict)

\* handlePost answers once its sync has returned, and its body is dropped
Answered(tasks) ==
    [i \in DOMAIN tasks |->
        IF tasks[i].pc = "returned" THEN [tasks[i] EXCEPT !.source = ""]
        ELSE tasks[i]]

\* the outcome of awaiting the given calls of invocation i: rejected with the
\* first rejection, else the results in the order of the calls
Results(i, calls) ==
    IF \E n \in 1..Len(calls) : proc[i][calls[n]].outcome.settled = "rejected"
    THEN Rejected("sync")
    ELSE Fulfilled([n \in 1..Len(calls) |-> proc[i][calls[n]].outcome.value])

\* syncAll: Promise.all settles, with a rejection at once, else when both
\* calls have returned; the combined insight is made if both succeeded
A_awaitAll ==
    \E i \in 1..MaxRuns :
        /\ task[i].op = "syncAll" /\ task[i].pc = "awaiting"
        /\ \/ \E src \in Sources : proc[i][src].outcome.settled = "rejected"
           \/ \A src \in Sources : proc[i][src].outcome.settled = "fulfilled"
        /\ LET out == Results(i, <<"perfexcrm", "uchat">>)
           IN  task' = Answered([task EXCEPT ![i].outcome = out,
                           ![i].pc = IF out.settled = "fulfilled"
                                        /\ out.value[1].success
                                        /\ out.value[2].success
                                     THEN "selectPerfexcrm" ELSE "returned"])
        /\ UNCHANGED <<date, upstream, apiConfig, db, proc, nchanges>>
        /\ UNCHANGED <<serverVars, restVars>>

A_selectPerfexcrm ==
    \E i \in 1..MaxRuns :
        /\ task[i].pc = "selectPerfexcrm"
        /\ task' = [task EXCEPT ![i].pc = "selectUchat",
                       ![i].perfexcrmData = single(db, "perfexcrm", "sales_summary")]
        /\ UNCHANGED <<date, upstream, apiConfig, db, proc, nchanges>>
        /\ UNCHANGED <<serverVars, restVars>>

A_selectUchat ==
    \E i \in 1..MaxRuns :
        /\ task[i].pc = "selectUchat"
        /\ LET uchatData == single(db, "uchat", "chat_summary")
           IN  task' = Answered([task EXCEPT ![i].uchatData = uchatData,
                           ![i].pc = IF task[i].perfexcrmData.data /\ uchatData.data
                                     THEN "upsertCombined" ELSE "returned"])
        /\ UNCHANGED <<date, upstream, apiConfig, db, proc, nchanges>>
        /\ UNCHANGED <<serverVars, restVars>>

A_upsertCombined ==
    \E i \in 1..MaxRuns :
        /\ task[i].pc = "upsertCombined"
        /\ db' = upsert(db, "aggregated_insights",
                        CombinedSummary(task[i].perfexcrmData, task[i].uchatData, date),
                        NoOnConflict).db
        /\ task' = Answered([task EXCEPT ![i].pc = "returned"])
        /\ UNCHANGED <<date, upstream, apiConfig, proc, nchanges>>
        /\ UNCHANGED <<serverVars, restVars>>

syncAll == A_awaitAll \/ A_selectPerfexcrm \/ A_selectUchat \/ A_upsertCombined

\* the caller of one source's sync gets its result
Return ==
    \E i \in 1..MaxRuns : \E src \in Sources :
        /\ task[i].pc = "awaiting"
        /\ task[i].op = (IF src = "perfexcrm" THEN "syncPerfexCRM" ELSE "syncUchat")
        /\ proc[i][src].outcome.settled # "pending"
        /\ task' = Answered([task EXCEPT ![i].outcome = Results(i, <<src>>),
                                         ![i].pc = "returned"])
        /\ UNCHANGED <<date, upstream, apiConfig, db, proc, nchanges>>
        /\ UNCHANGED <<serverVars, restVars>>

\* midnight UTC
NextDay ==
    /\ date < MaxDays
    /\ date' = date + 1
    /\ UNCHANGED <<upstream, apiConfig, db, task, proc, nchanges>>
    /\ UNCHANGED <<serverVars, restVars>>

\* an upstream API changes its data, goes down or comes back
UpstreamChange ==
    /\ nchanges < MaxChanges
    /\ \E src \in Sources : \E api \in ChangesOf(upstream[src]) :
           upstream' = [upstream EXCEPT ![src] = api]
    /\ nchanges' = nchanges + 1
    /\ UNCHANGED <<date, apiConfig, db, task, proc>>
    /\ UNCHANGED <<serverVars, restVars>>

SpecSync ==
    /\ SyncInit
    /\ [][ \/ CallSync
            \/ syncPerfexCRM \/ syncUchat \/ syncAll \/ Return
            \/ NextDay \/ UpstreamChange ]_vars

----------------------------------------------------------------------------
(* Properties of the sync service.                                         *)

\* the metrics rows a call has upserted: one for each answer it fetched
MetricRows(src, p) ==
    LET has(name) == name \in DOMAIN p.got
    IN  IF src = "perfexcrm"
        THEN (IF has("statistics") THEN {PerfexStatisticsRow(p.today, p.got)} ELSE {})
             \cup (IF has("customers") THEN {CustomersRow(p.today, p.got)} ELSE {})
             \cup (IF has("invoices") THEN {InvoicesRow(p.today, p.got)} ELSE {})
             \cup (IF has("leads") THEN {LeadsRow(p.today, p.got)} ELSE {})
        ELSE (IF has("statistics") THEN {UchatStatisticsRow(p.today, p.got)} ELSE {})
             \cup (IF has("activeChats") THEN {ActiveChatsRow(p.today, p.got)} ELSE {})
             \cup (IF has("allChats") THEN {AllChatsRow(p.today, p.got)} ELSE {})

\* the answers a call that runs to its end fetches
Locals ==
    [perfexcrm |-> {"statistics", "customers", "invoices", "leads"},
     uchat     |-> {"statistics", "activeChats", "allChats"}]

\* at the return of call p its metrics table held each row p upserted, as
\* p wrote it
Stored(src, p) ==
    \A m \in MetricRows(src, p) :
        \E r \in p.after.metrics : Matches(r, m, DOMAIN m)

\* no two rows share (metric_type, metric_key, metric_date)
OneRowPerKey(rows) ==
    \A r1, r2 \in rows :
        Matches(r1, r2, {"metric_type", "metric_key", "metric_date"}) => r1 = r2

\* invocations i < j whose calls of src have returned, no call of src between
Consecutive(src, i, j) ==
    /\ i < j
    /\ proc[i][src].pc = "done" /\ proc[j][src].pc = "done"
    /\ \A k \in (i + 1)..(j - 1) : proc[k][src].pc = "idle"

\* calls a and b got the same answers from upstream and ended the same way
SameResponses(a, b) ==
    /\ a.got = b.got
    /\ a.outcome.settled = b.outcome.settled
    /\ a.outcome.settled = "fulfilled"
          => a.outcome.value.success = b.outcome.value.success

\* C8: a sync run a second time on the same UTC date with the same upstream
\* answers leaves its metrics table as the first run left it, with exactly
\* one row for each (metric_type, metric_key, metric_date) it upserted.
C8_SyncTwiceIsIdempotent ==
    \A src \in Sources : \A i, j \in 1..MaxRuns :
        (/\ Consecutive(src, i, j)
         /\ proc[i][src].today = proc[j][src].today
         /\ SameResponses(proc[i][src], proc[j][src]))
            => /\ proc[j][src].after.metrics = proc[i][src].after.metrics
               /\ OneRowPerKey(proc[j][src].after.metrics)
               /\ Stored(src, proc[j][src])

\* syncPerfexCRM has run twice to success on one date with the same answers
C8_Witness ==
    \E i, j \in 1..MaxRuns :
        /\ Consecutive("perfexcrm", i, j)
        /\ proc[i].perfexcrm.today = proc[j].perfexcrm.today
        /\ SameResponses(proc[i].perfexcrm, proc[j].perfexcrm)
        /\ proc[j].perfexcrm.outcome.value.success
        /\ Cardinality(proc[j].perfexcrm.after.metrics) = 4

\* C9 as the specification words it: all three tables are keyed by (type,
\* key, date), so that a successful sync on date D2 after a successful sync
\* on an earlier date D1 leaves the rows of D1 and adds its own rows for D2,
\* in its metrics table and in aggregated_insights alike.
C9_ThreeTablesKeyedByDate ==
    \A src \in Sources : \A i, j \in 1..MaxRuns :
        (/\ Consecutive(src, i, j)
         /\ proc[i][src].today # 0
         /\ proc[i][src].today < proc[j][src].today
         /\ proc[i][src].outcome.value.success
         /\ proc[j][src].outcome.value.success)
            => /\ proc[i][src].after.metrics \subseteq proc[j][src].after.metrics
               /\ Stored(src, proc[j][src])
               /\ proc[i][src].after.insights \subseteq proc[j][src].after.insights
               /\ Cardinality(proc[j][src].after.insights) >= 2

\* C9: the two metrics tables are keyed by (metric_type, metric_key,
\* metric_date): a sync on date D2 leaves every metrics row of an earlier
\* date D1 unchanged and stores its own rows under D2. aggregated_insights
\* has no date: it holds at most one row for each (insight_type,
\* insight_key, source), whatever the number of dates syncs ran on.
C9_MetricsKeyedByDate ==
    /\ \A src \in Sources : \A i, j \in 1..MaxRuns :
          (/\ Consecutive(src, i, j)
           /\ proc[i][src].today # 0
           /\ proc[i][src].today < proc[j][src].today)
              => /\ proc[i][src].after.metrics \subseteq proc[j][src].after.metrics
                 /\ Stored(src, proc[j][src])
    /\ \A src \in Sources : OneRowPerKey(db.rows[MetricsTable[src]])
    /\ \A r1, r2 \in db.rows.aggregated_insights :
          Matches(r1, r2, UniqueColumns.aggregated_insights) => r1 = r2

\* syncPerfexCRM has run to success on two dates: eight metrics rows, one
\* sales_summary
C9_Witness ==
    \E i, j \in 1..MaxRuns :
        /\ Consecutive("perfexcrm", i, j)
        /\ proc[i].perfexcrm.today # 0
        /\ proc[i].perfexcrm.today < proc[j].perfexcrm.today
        /\ proc[i].perfexcrm.outcome.value.success
        /\ proc[j].perfexcrm.outcome.value.success
        /\ Cardinality(proc[j].perfexcrm.after.metrics) = 8
        /\ Cardinality(proc[j].perfexcrm.after.insights) = 1

\* C10: syncAll starts both calls in one turn, is never rejected, and its
\* results are the perfexcrm result then the uchat result; each source
\* succeeds exactly when it is configured and none of its own fetches threw,
\* whatever the other did, and then its rows are stored.
C10_SyncAllIsolatesFailures ==
    \A i \in 1..MaxRuns :
        task[i].op = "syncAll" =>
            /\ \A src \in Sources : proc[i][src].pc # "idle"
            /\ (proc[i].perfexcrm.today # 0 /\ proc[i].uchat.today # 0)
                  => proc[i].perfexcrm.today = proc[i].uchat.today
            /\ task[i].outcome.settled # "rejected"
            /\ (task[i].pc = "awaiting" /\ task[i].outcome.settled = "pending")
                  \/ task[i].outcome.settled = "fulfilled"
            /\ task[i].outcome.settled = "fulfilled" =>
                  LET value == task[i].outcome.value
                      Of(src) == IF src = "perfexcrm" THEN 1 ELSE 2
                  IN  /\ Len(value) = 2
                      /\ \A src \in Sources :
                            /\ value[Of(src)].source = src
                            /\ value[Of(src)] = proc[i][src].outcome.value
                            /\ value[Of(src)].success
                                  <=> (apiConfig[src]
                                       /\ DOMAIN proc[i][src].got = Locals[src])
                            /\ value[Of(src)].success => Stored(src, proc[i][src])

\* syncAll has returned; syncUchat finished first and succeeded, with its
\* rows stored, and syncPerfexCRM failed on a thrown error
C10_Witness ==
    \E i \in 1..MaxRuns :
        /\ task[i].op = "syncAll" /\ task[i].pc = "returned"
        /\ task[i].order = <<"uchat", "perfexcrm">>
        /\ ~task[i].outcome.value[1].success
        /\ task[i].outcome.value[1].error
              = "PerfexCRM: No response from server. Please check your connection."
        /\ task[i].outcome.value[2].success
        /\ Cardinality(proc[i].uchat.after.metrics) >= 3

\* the invocation is between its start and its return
InFlight(i) == task[i].pc \notin {"idle", "returned"}

\* the insight rows of the database other than the one kind
OtherInsights(database, kind) ==
    {r \in database.rows.aggregated_insights : r.insight_type # kind}

\* in every state: the source of a POST in flight selects its sync, and
\* only the calls of that sync have begun
C11_SourceSelects ==
    \A i \in 1..MaxRuns :
        /\ (InFlight(i) /\ task[i].source = "perfexcrm")
               => task[i].op = "syncPerfexCRM"
        /\ (InFlight(i) /\ task[i].source = "uchat") => task[i].op = "syncUchat"
        /\ (InFlight(i) /\ task[i].source \notin {"perfexcrm", "uchat"})
               => task[i].op = "syncAll"
        /\ task[i].op = "syncPerfexCRM"
               => proc[i].perfexcrm.pc # "idle" /\ proc[i].uchat = NoProc
        /\ task[i].op = "syncUchat"
               => proc[i].uchat.pc # "idle" /\ proc[i].perfexcrm = NoProc
        /\ task[i].op = "syncAll"
               => proc[i].perfexcrm.pc # "idle" /\ proc[i].uchat.pc # "idle"

\* in every step: a POST for one source leaves the other source's table and
\* every insight row but its own as they are
C11_SourceFrame ==
    \A i \in 1..MaxRuns :
        /\ (InFlight(i) /\ task[i].op = "syncPerfexCRM")
               => /\ db'.rows.uchat_metrics = db.rows.uchat_metrics
                  /\ OtherInsights(db', "sales_summary")
                        = OtherInsights(db, "sales_summary")
        /\ (InFlight(i) /\ task[i].op = "syncUchat")
               => /\ db'.rows.perfexcrm_metrics = db.rows.perfexcrm_metrics
                  /\ OtherInsights(db', "chat_summary")
                        = OtherInsights(db, "chat_summary")

\* C11: POST /api/sync with source "perfexcrm" runs only syncPerfexCRM and
\* leaves uchat_metrics and the chat_summary and combined_summary rows
\* unchanged; with source "uchat" it runs only syncUchat and leaves
\* perfexcrm_metrics and the sales_summary and combined_summary rows
\* unchanged; with "all", no source or any other value it runs syncAll.
C11_SourceSelectsSync == []C11_SourceSelects /\ [][C11_SourceFrame]_vars

\* after a syncAll that stored the rows of both sources and the combined
\* summary, a POST with source "perfexcrm" on a later date has run
\* syncPerfexCRM to its end and is about to answer
C11_Witness ==
    \E i, j \in 1..MaxRuns :
        /\ i < j
        /\ task[i].op = "syncAll" /\ task[i].pc = "returned"
        /\ task[j].source = "perfexcrm" /\ task[j].pc = "awaiting"
        /\ proc[j].perfexcrm.pc = "done"
        /\ proc[j].perfexcrm.outcome.value.success
        /\ proc[i].perfexcrm.today < proc[j].perfexcrm.today
        /\ db.rows.uchat_metrics # {}
        /\ Cardinality(OtherInsights(db, "sales_summary")) = 2

\* C12: POST /api/sync answers 403 when the bearer token is valid but the
\* account is not authorized (verifyAuth says "Account not authorized"), and
\* 401 when the Authorization header is missing or the token is invalid.
C12_SyncAnswers403 ==
    (resp.called /\ resp.route = "sync")
        => /\ resp.authError = "Account not authorized" => resp.status = 403
           /\ resp.authError \in {"No authorization header", "Invalid token"}
                 => resp.status = 401

----------------------------------------------------------------------------
(* The browser side: AuthProvider (lib/providers/auth-provider.tsx) and     *)
(* AuthGuard (components/auth/auth-guard.tsx), which the dashboard layout   *)
(* wraps around its children. SpecGuard runs the provider's callbacks      *)
(* against a supabase client whose session changes, with AuthGuard          *)
(* rendered again after every change of the provider's state.               *)

MaxOps == 3
MaxChecks == 2

NoSession == "none"

\* no checkAuthorization call in this place
Free == [pc |-> "free", token |-> NoSession, then |-> ""]

HasFree(cs) == \E i \in 1..MaxChecks : cs[i].pc = "free"

\* checkAuthorization(user) up to its first await; then: what its caller does
\* when it returns ("setLoading": the await of onAuthStateChange's callback)
checkAuthorization(p, cs, user, then) ==
    LET FreeSlot(c) ==
            CHOOSE i \in 1..MaxChecks :
                c[i].pc = "free" /\ \A j \in 1..(i - 1) : c[j].pc # "free"
    IN
    IF user = NoSession
    THEN [provider |-> [p EXCEPT !.isAuthorized = FALSE],
          checks   |-> IF then = "setLoading"
                       THEN [cs EXCEPT ![FreeSlot(cs)] =
                                [Free EXCEPT !.pc = "setLoading", !.then = then]]
                       ELSE cs]
    ELSE [provider |-> p,
          checks   |-> [cs EXCEPT ![FreeSlot(cs)] =
                          [Free EXCEPT !.pc = "getSession", !.then = then]]]

\* a checkAuthorization call returns to its caller
Finish(c) ==
    IF c.then = "setLoading" THEN [Free EXCEPT !.pc = "setLoading", !.then = c.then]
    ELSE Free

\* what AuthGuard returns
AuthGuard(p) ==
    IF p.loading THEN "Loading"
    ELSE IF p.user = NoSession \/ ~p.isAuthorized THEN "null"
    ELSE "children"

\* an effect that sends only the signed-out visitor to /login
useEffectUserOnly(p) ==
    IF ~p.loading /\ p.user = NoSession THEN "/login" ELSE ""

\* the effect of AuthGuard: the route it pushes, "" for none
useEffect(p) ==
    IF ~p.loading
    THEN IF p.user = NoSession THEN "/login"
         ELSE IF ~p.isAuthorized THEN "/login"
         ELSE ""
    ELSE ""

Unmounted == [mounted |-> FALSE, rendered |-> "", deps |-> <<>>, pushed |-> ""]

\* React renders AuthGuard with the provider's new state and runs its effect
\* if a dependency changed; a pushed route stays until the navigation is done
Commit(g, p) ==
    LET \* the dependencies of the effect
        Deps == <<p.user, p.isAuthorized, p.loading>>
    IN  IF ~g.mounted THEN g
        ELSE [g EXCEPT !.rendered = AuthGuard(p),
                       !.deps = Deps,
                       !.pushed = IF g.deps # Deps /\ useEffect(p) # ""
                                  THEN useEffect(p) ELSE @]

GuardInit ==
    /\ authIn = Idle /\ authOut = Idle /\ now = Idle /\ lastCleanup = Idle
    /\ store = Idle /\ nticks = Idle /\ win = Idle /\ last = Idle
    /\ resp = Idle /\ usage = Idle
    /\ NoSync /\ call = Idle /\ unswept = Idle /\ NoUi
    /\ provider = [user |-> NoSession, loading |-> TRUE, isAuthorized |-> FALSE]
    \* the accounts that can sign in; /api/auth/check authorizes only the owner
    /\ \E held \in {"owner", "guest", NoSession} :
          client = [held |-> held, init |-> TRUE, events |-> <<>>,
                    promises |-> {}, nops |-> 0]
    /\ checks = [i \in 1..MaxChecks |-> Free]
    /\ guard = Unmounted

\* supabase.auth.getSession().then(...) of the provider's effect
getSession ==
    /\ client.init
    /\ client.held # NoSession => HasFree(checks)
    /\ LET r == checkAuthorization([provider EXCEPT !.user = client.held],
                                   checks, client.held, "return")
       IN  /\ provider' = [r.provider EXCEPT !.loading = FALSE]
           /\ checks' = r.checks
    /\ client' = [client EXCEPT !.init = FALSE]
    /\ guard' = Commit(guard, provider')
    /\ UNCHANGED <<serverVars, syncVars, call, unswept, uiVars>>

\* the callback of supabase.auth.onAuthStateChange, up to its await
onAuthStateChange ==
    /\ client.events # <<>>
    /\ HasFree(checks)
    /\ LET session == Head(client.events)
           r == checkAuthorization([provider EXCEPT !.user = session],
                                   checks, session, "setLoading")
       IN  /\ provider' = r.provider
           /\ checks' = r.checks
    /\ client' = [client EXCEPT !.events = Tail(@)]
    /\ guard' = Commit(guard, provider')
    /\ UNCHANGED <<serverVars, syncVars, call, unswept, uiVars>>

\* checkAuthorization: await supabase.auth.getSession()
C_getSession ==
    \E i \in 1..MaxChecks :
        /\ checks[i].pc = "getSession"
        /\ IF client.held = NoSession
           THEN /\ provider' = [provider EXCEPT !.isAuthorized = FALSE]
                /\ checks' = [checks EXCEPT ![i] = Finish(@)]
           ELSE /\ provider' = provider
                /\ checks' = [checks EXCEPT ![i].pc = "fetch",
                                            ![i].token = client.held]
        /\ guard' = Commit(guard, provider')
        /\ UNCHANGED <<client, serverVars, syncVars, call, unswept, uiVars>>

\* checkAuthorization: await fetch("/api/auth/check"), await response.json();
\* a thrown error sets isAuthorized false as an unauthorized answer does.
\* result.authorized of /api/auth/check for the token of an account: true
\* only for the owner, and false for the owner too when the request is
\* refused or the account is no longer active
C_fetch ==
    \E i \in 1..MaxChecks :
    \E authorized \in IF checks[i].token = "owner" THEN BOOLEAN ELSE {FALSE} :
        /\ checks[i].pc = "fetch"
        /\ provider' = [provider EXCEPT !.isAuthorized = authorized]
        /\ checks' = [checks EXCEPT ![i] = Finish(@)]
        /\ guard' = Commit(guard, provider')
        /\ UNCHANGED <<client, serverVars, syncVars, call, unswept, uiVars>>

\* the callback of onAuthStateChange after its await: setLoading(false)
C_setLoading ==
    \E i \in 1..MaxChecks :
        /\ checks[i].pc = "setLoading"
        /\ provider' = [provider EXCEPT !.loading = FALSE]
        /\ checks' = [checks EXCEPT ![i] = Free]
        /\ guard' = Commit(guard, provider')
        /\ UNCHANGED <<client, serverVars, syncVars, call, unswept, uiVars>>

\* signIn: supabase.auth.signInWithPassword succeeds for an account; the
\* client holds its session and tells its subscribers
signIn ==
    \E account \in {"owner", "guest"} :
        /\ client.nops < MaxOps
        /\ client' = [client EXCEPT !.held = account,
                         !.events = Append(@, account),
                         !.promises = @ \cup {[of |-> "signIn", user |-> account]},
                         !.nops = @ + 1]
        /\ UNCHANGED <<provider, checks, guard, serverVars, syncVars, call, unswept, uiVars>>

\* signIn after its await: checkAuthorization(data.user)
signInThen ==
    \E promise \in client.promises :
        /\ promise.of = "signIn"
        /\ HasFree(checks)
        /\ LET r == checkAuthorization(provider, checks, promise.user, "return")
           IN  /\ provider' = r.provider
               /\ checks' = r.checks
        /\ client' = [client EXCEPT !.promises = @ \ {promise}]
        /\ guard' = Commit(guard, provider')
        /\ UNCHANGED <<serverVars, syncVars, call, unswept, uiVars>>

\* signOut: supabase.auth.signOut()
signOut ==
    /\ client.nops < MaxOps
    /\ client' = [client EXCEPT !.held = NoSession,
                     !.events = Append(@, NoSession),
                     !.promises = @ \cup {[of |-> "signOut", user |-> NoSession]},
                     !.nops = @ + 1]
    /\ UNCHANGED <<provider, checks, guard, serverVars, syncVars, call, unswept, uiVars>>

\* signOut after its await: setUser(null), setIsAuthorized(false)
signOutThen ==
    \E promise \in client.promises :
        /\ promise.of = "signOut"
        /\ provider' = [provider EXCEPT !.user = NoSession, !.isAuthorized = FALSE]
        /\ client' = [client EXCEPT !.promises = @ \ {promise}]
        /\ guard' = Commit(guard, provider')
        /\ UNCHANGED <<checks, serverVars, syncVars, call, unswept, uiVars>>

\* the client tells its subscribers of the session it holds (the initial
\* session, a refreshed token)
AuthEvent ==
    /\ client.nops < MaxOps
    /\ client' = [client EXCEPT !.events = Append(@, client.held),
                                !.nops = @ + 1]
    /\ UNCHANGED <<provider, checks, guard, serverVars, syncVars, call, unswept, uiVars>>

\* the visitor opens /dashboard: DashboardLayout mounts AuthGuard
Mount ==
    /\ ~guard.mounted
    /\ guard' = Commit([Unmounted EXCEPT !.mounted = TRUE], provider)
    /\ UNCHANGED <<provider, client, checks, serverVars, syncVars, call, unswept, uiVars>>

\* router.push("/login") takes the visitor away from the dashboard
Navigate ==
    /\ guard.mounted /\ guard.pushed # ""
    /\ guard' = Unmounted
    /\ UNCHANGED <<provider, client, checks, serverVars, syncVars, call, unswept, uiVars>>

SpecGuard ==
    /\ GuardInit
    /\ [][ \/ getSession \/ onAuthStateChange
            \/ C_getSession \/ C_fetch \/ C_setLoading
            \/ signIn \/ signInThen \/ signOut \/ signOutThen \/ AuthEvent
            \/ Mount \/ Navigate ]_vars

\* C13: in every state of the auth provider, AuthGuard renders the dashboard
\* children only when loading is false, user is non-null and isAuthorized is
\* true; once loading is false with no user or with isAuthorized false it
\* renders nothing and has pushed a redirect to /login.
C13_GuardAdmitsAuthorized ==
    guard.mounted =>
        /\ guard.rendered = "children"
              => (~provider.loading /\ provider.user # NoSession
                    /\ provider.isAuthorized)
        /\ (~provider.loading
              /\ (provider.user = NoSession \/ ~provider.isAuthorized))
              => (guard.rendered = "null" /\ guard.pushed = "/login")

\* a signed-in guest whose check came back unauthorized is on /dashboard:
\* nothing is rendered and the redirect is pushed
C13_Witness ==
    /\ guard.mounted
    /\ provider.user = "guest" /\ ~provider.loading /\ ~provider.isAuthorized
    /\ \A i \in 1..MaxChecks : checks[i].pc = "free"
    /\ guard.rendered = "null" /\ guard.pushed = "/login"

----------------------------------------------------------------------------
(* The API clients (lib/api/perfexcrm-client.ts, lib/api/uchat-client.ts): *)
(* one GET through retryRequest. An attempt that fails reaches the catch    *)
(* block of retryRequest as the Error the response interceptor (handleError)*)
(* or the request function made of it. Messages are tuples of characters.   *)

maxRetries == 3
retryDelay == 1000
MaxAttempts == 6

ClientName ==
    [PerfexCRM |-> <<"P", "e", "r", "f", "e", "x", "C", "R", "M">>,
     Uchat     |-> <<"U", "c", "h", "a", "t">>]

\* String.prototype.includes
includes(s, sub) ==
    \E i \in 0..(Len(s) - Len(sub)) : SubSeq(s, i + 1, i + Len(sub)) = sub

\* a number in a template literal
RECURSIVE Decimal(_)
Decimal(n) ==
    LET DigitChars == <<"0", "1", "2", "3", "4", "5", "6", "7", "8", "9">>
    IN  IF n < 10 THEN <<DigitChars[n + 1]>>
        ELSE Decimal(n \div 10) \o <<DigitChars[(n % 10) + 1]>>

GatewayTimeoutText ==
    <<"G", "a", "t", "e", "w", "a", "y", " ", "T", "i", "m", "e", "o", "u",
      "t">>

\* the AxiosError of an outcome: response status (0: none), whether the
\* request was made, the message of the response body, axios's own message
AxiosError(outcome) ==
    LET
        AxiosTimeoutText ==
            <<"t", "i", "m", "e", "o", "u", "t", " ", "o", "f", " ", "3", "0", "0",
              "0", "0", "m", "s", " ", "e", "x", "c", "e", "e", "d", "e", "d">>
        AxiosNetworkText ==
            <<"N", "e", "t", "w", "o", "r", "k", " ", "E", "r", "r", "o", "r">>
        AxiosStatusText ==
            <<"R", "e", "q", "u", "e", "s", "t", " ", "f", "a", "i", "l", "e", "d",
              " ", "w", "i", "t", "h", " ", "s", "t", "a", "t", "u", "s", " ", "c",
              "o", "d", "e">>
        AxiosSetupText ==
            <<"I", "n", "v", "a", "l", "i", "d", " ", "U", "R", "L">>
        NotFoundText ==
            <<"N", "o", "t", " ", "f", "o", "u", "n", "d">>
    IN  CASE outcome = "timeout" ->
                [status |-> 0, request |-> TRUE, body |-> <<>>, message |-> AxiosTimeoutText]
          [] outcome = "network" ->
                [status |-> 0, request |-> TRUE, body |-> <<>>, message |-> AxiosNetworkText]
          [] outcome = "setup" ->
                [status |-> 0, request |-> FALSE, body |-> <<>>, message |-> AxiosSetupText]
          [] outcome = "s500" ->
                [status |-> 500, request |-> TRUE, body |-> <<>>, message |-> AxiosStatusText]
          [] outcome = "s503" ->
                [status |-> 503, request |-> TRUE, body |-> GatewayTimeoutText,
                 message |-> AxiosStatusText]
          [] outcome = "s401" ->
                [status |-> 401, request |-> TRUE, body |-> <<>>, message |-> AxiosStatusText]
          [] outcome = "s404" ->
                [status |-> 404, request |-> TRUE, body |-> NotFoundText,
                 message |-> AxiosStatusText]
          [] outcome = "s429" ->
                [status |-> 429, request |-> TRUE, body |-> <<>>, message |-> AxiosStatusText]

\* handleError: the message of the Error it throws
handleError(name, error) ==
    LET
        NoResponseText ==
            <<"N", "o", " ", "r", "e", "s", "p", "o", "n", "s", "e", " ", "f", "r",
              "o", "m", " ", "s", "e", "r", "v", "e", "r", ".", " ", "P", "l", "e",
              "a", "s", "e", " ", "c", "h", "e", "c", "k", " ", "y", "o", "u", "r",
              " ", "c", "o", "n", "n", "e", "c", "t", "i", "o", "n", ".">>
        AuthenticationFailedText ==
            <<"A", "u", "t", "h", "e", "n", "t", "i", "c", "a", "t", "i", "o", "n",
              " ", "f", "a", "i", "l", "e", "d", ".", " ", "P", "l", "e", "a", "s",
              "e", " ", "c", "h", "e", "c", "k", " ", "y", "o", "u", "r", " ", "A",
              "P", "I", " ", "k", "e", "y", ".">>
        RateLimitExceededText ==
            <<"R", "a", "t", "e", " ", "l", "i", "m", "i", "t", " ", "e", "x", "c",
              "e", "e", "d", "e", "d", ".", " ", "P", "l", "e", "a", "s", "e", " ",
              "t", "r", "y", " ", "a", "g", "a", "i", "n", " ", "l", "a", "t", "e",
              "r", ".">>
        ServerErrorText ==
            <<"S", "e", "r", "v", "e", "r", " ", "e", "r", "r", "o", "r", " ", "(">>
        TryAgainText ==
            <<")", ".", " ", "P", "l", "e", "a", "s", "e", " ", "t", "r", "y", " ",
              "a", "g", "a", "i", "n", " ", "l", "a", "t", "e", "r", ".">>
        prefix == ClientName[name] \o <<":", " ">>
    IN  IF error.status # 0
        THEN IF error.status = 401 THEN prefix \o AuthenticationFailedText
             ELSE IF error.status = 429 THEN prefix \o RateLimitExceededText
             ELSE IF error.status >= 500
                  THEN prefix \o ServerErrorText \o Decimal(error.status)
                          \o TryAgainText
             ELSE prefix \o error.body
        ELSE IF error.request THEN prefix \o NoResponseText
        ELSE prefix \o error.message

\* the message of the Error that the request function of get throws
ErrorOf(name, outcome) ==
    LET
        RequestFailedText ==
            <<"R", "e", "q", "u", "e", "s", "t", " ", "f", "a", "i", "l", "e", "d">>
    IN  IF outcome = "refused" THEN RequestFailedText
        ELSE IF outcome = "refusedTimeout" THEN GatewayTimeoutText
        ELSE handleError(name, AxiosError(outcome))

\* isRetryableError, of the message of an Error
isRetryableError(message) ==
    LET
        TIMEOUT ==
            <<"t", "i", "m", "e", "o", "u", "t">>
        NETWORK ==
            <<"n", "e", "t", "w", "o", "r", "k">>
        SERVER_ERROR ==
            <<"s", "e", "r", "v", "e", "r", " ", "e", "r", "r", "o", "r">>
        lower == toLowerCase(message)
    IN  \/ includes(lower, TIMEOUT)
        \/ includes(lower, NETWORK)
        \/ includes(lower, SERVER_ERROR)

\* a catch block that passes its retries on unchanged
retryRequestKeepsCount(retries, message) ==
    IF retries > 0 /\ isRetryableError(message)
    THEN [retry |-> TRUE, retries |-> retries]
    ELSE [retry |-> FALSE, retries |-> retries]

\* the catch block of retryRequest: retry with one retry less, or throw
retryRequest(retries, message) ==
    IF retries > 0 /\ isRetryableError(message)
    THEN [retry |-> TRUE, retries |-> retries - 1]
    ELSE [retry |-> FALSE, retries |-> retries]

\* a delay that doubles with every retry
delayDoubling(k) == retryDelay * 2 ^ (k - 1)

\* the delay of the setTimeout before the k-th retry: this.retryDelay
delay(k) == retryDelay

RetryInit ==
    /\ authIn = Idle /\ authOut = Idle /\ now = Idle /\ lastCleanup = Idle
    /\ store = Idle /\ nticks = Idle /\ win = Idle /\ last = Idle
    /\ resp = Idle /\ usage = Idle
    /\ NoSync /\ NoPage /\ unswept = Idle /\ NoUi
    /\ \E name \in DOMAIN ClientName :
          call = [client |-> name, pc |-> "requesting", retries |-> maxRetries,
                  attempts |-> 0, outcomes |-> <<>>, waits |-> <<>>,
                  error |-> <<>>]

\* await requestFn() returns
AttemptReturns ==
    /\ call.pc = "requesting" /\ call.attempts < MaxAttempts
    /\ call' = [call EXCEPT !.pc = "returned", !.attempts = @ + 1,
                            !.outcomes = Append(@, "ok")]
    /\ UNCHANGED <<serverVars, syncVars, pageVars, unswept, uiVars>>

\* await requestFn() throws. The ways an attempt can fail: no answer within
\* the 30 s axios timeout, no connection, a request that could not be set up,
\* an error status (with the message of its body, if any), or an answer whose
\* body says success: false (with or without a message).
AttemptThrows ==
    \E outcome \in {"timeout", "network", "setup", "s500", "s503", "s401",
                    "s404", "s429", "refused", "refusedTimeout"} :
        /\ call.pc = "requesting" /\ call.attempts < MaxAttempts
        /\ LET message == ErrorOf(call.client, outcome)
               decision == retryRequest(call.retries, message)
           IN  call' = [call EXCEPT
                          !.pc = IF decision.retry THEN "waiting" ELSE "thrown",
                          !.retries = decision.retries,
                          !.attempts = @ + 1,
                          !.outcomes = Append(@, outcome),
                          !.error = message]
        /\ UNCHANGED <<serverVars, syncVars, pageVars, unswept, uiVars>>

\* setTimeout(resolve, this.retryDelay) fires; retryRequest runs again
Timer ==
    /\ call.pc = "waiting"
    /\ call' = [call EXCEPT !.pc = "requesting",
                            !.waits = Append(@, delay(Len(@) + 1))]
    /\ UNCHANGED <<serverVars, syncVars, pageVars, unswept, uiVars>>

SpecRetry == RetryInit /\ [][AttemptReturns \/ AttemptThrows \/ Timer]_vars

\* every attempt settles (axios gives up after its 30 s timeout) and every
\* timer fires
SpecRetryFair ==
    /\ SpecRetry
    /\ WF_vars(AttemptReturns \/ AttemptThrows)
    /\ WF_vars(Timer)

Ended == call.pc \in {"returned", "thrown"}

\* in every state of one GET: no more than maxRetries + 1 attempts; a
\* returned call returns its first successful attempt; a thrown call throws
\* the error of its last attempt; no attempt follows an error that is not
\* retryable
C14_Capped ==
    /\ call.attempts = Len(call.outcomes)
    /\ call.attempts <= maxRetries + 1
    /\ \A k \in 1..(Len(call.outcomes) - 1) : call.outcomes[k] # "ok"
    /\ call.pc = "returned"
          => call.attempts >= 1 /\ call.outcomes[call.attempts] = "ok"
    /\ call.pc = "thrown"
          => /\ call.attempts >= 1
             /\ call.outcomes[call.attempts] # "ok"
             /\ call.error = ErrorOf(call.client, call.outcomes[call.attempts])
    /\ \A k \in 1..Len(call.outcomes) :
          (/\ call.outcomes[k] # "ok"
           /\ ~isRetryableError(ErrorOf(call.client, call.outcomes[k])))
              => (k = Len(call.outcomes) /\ call.pc = "thrown")

\* C14: one client GET through retryRequest makes at most maxRetries + 1 = 4
\* attempts and then returns the first successful result or throws the last
\* error; an error that is not retryable is thrown at once; the loop always
\* terminates.
C14_RetryIsCapped == []C14_Capped /\ <>Ended

\* a GET answered 5xx four times has thrown the last error after three waits
C14_Witness ==
    /\ call.pc = "thrown"
    /\ call.attempts = maxRetries + 1
    /\ Len(call.waits) = maxRetries
    /\ call.outcomes[call.attempts] = "s503"
    /\ call.retries = 0

\* C15: a GET whose attempt ends with no response from the server (a
\* connection failure or the 30 s axios timeout) is attempted again, up to
\* the retry cap, before the error reaches the caller.
C15_NoResponseIsRetried ==
    (/\ call.pc = "thrown"
     /\ call.outcomes[call.attempts] \in {"timeout", "network"})
        => call.attempts = maxRetries + 1

\* C16 as the specification words it: the wait before the k-th retry of one
\* request grows exponentially with k: each wait is the same multiple,
\* greater than 1, of the wait before it.
C16_DelayGrowsExponentially ==
    /\ \A k \in 2..Len(call.waits) : call.waits[k] > call.waits[k - 1]
    /\ \A k \in 3..Len(call.waits) :
          call.waits[k] * call.waits[k - 2] = call.waits[k - 1] * call.waits[k - 1]

\* C16: the retry loop waits the same retryDelay = 1000 ms before every
\* retry of one request, whatever the number of the retry.
C16_DelayIsConstant ==
    \A k \in 1..Len(call.waits) : call.waits[k] = retryDelay

\* a GET has waited three times and is at its fourth attempt
C16_Witness ==
    /\ Len(call.waits) = maxRetries
    /\ call.pc = "requesting"
    /\ call.retries = 0

----------------------------------------------------------------------------
(* SpecKeyed: requests to /api/sync (requireAuth: true) and to              *)
(* /api/auth/login (requireAuth: false) from several addresses, with the    *)
(* address headers set on both routes.                                      *)

KeyedForwarded == {<<>>, <<" ", "1", ",", " ", "2">>}
KeyedRealIp == {<<>>, <<"2">>}

\* env: the environment of the verifyAuth calls, the seeded table
KeyedRequests(route) ==
    { [route |-> route, header |-> h, env1 |-> env, env2 |-> env,
       forwarded |-> f, realIp |-> r,
       input |-> IF route = "sync" THEN "all" ELSE "ok"] :
          h \in (IF route = "sync" THEN {"absent", "tokOther", "tokExact"}
                 ELSE {"absent"}),
          env \in {e \in HttpEnvs : \A a \in e.accounts : a.is_active},
          f \in KeyedForwarded, r \in KeyedRealIp }

\* one request to /api/sync or /api/auth/login, served to its response
KeyedRequest ==
    \E route \in {"sync", "login"} :
      \E request \in KeyedRequests(route) :
        \E out \in {serve(request, store, lastCleanup, now)} :
            /\ out.checked => SumCounts(store, Keys) < MaxLoad
            /\ store' = out.store
            /\ lastCleanup' = out.lastCleanup
            /\ resp' = [called |-> TRUE, route |-> route, request |-> request,
                        status |-> out.status, checked |-> out.checked,
                        key |-> out.key, result |-> out.result]
            /\ UNCHANGED <<authIn, authOut, now, nticks, win, last, usage>>
            /\ UNCHANGED <<syncVars, restVars>>

\* how many windows pass
MaxKeyedTicks == 1

\* the clock of SpecKeyed: a window of the strict preset passes
KeyedTick ==
    /\ nticks < MaxKeyedTicks
    /\ now' = now + RateLimitPresets.strict.windowMs + 1
    /\ nticks' = nticks + 1
    /\ UNCHANGED <<authIn, authOut, lastCleanup, store, win, last, resp, usage>>
    /\ UNCHANGED <<syncVars, restVars>>

SpecKeyed == HttpInit /\ [][KeyedTick \/ KeyedRequest]_vars

\* e is the first entry of the comma-separated list f, without the spaces
\* around it
IsFirstEntry(e, f) ==
    \E a \in 0..Len(f) : \E b \in a..Len(f) :
        /\ e = SubSeq(f, a + 1, b)
        /\ \A i \in 1..a : f[i] = " "
        /\ \A i \in (a + 1)..b : f[i] # ","
        /\ e # <<>> => (e[1] # " " /\ e[Len(e)] # " ")
        /\ \E c \in b..Len(f) :
              /\ \A i \in (b + 1)..c : f[i] = " "
              /\ c = Len(f) \/ f[c + 1] = ","

\* the key of the last counted request: the user's id on /api/sync, the
\* address on /api/auth/login
C17_KeyOfRoute ==
    (resp.called /\ resp.checked) =>
        IF Routes[resp.route].requireAuth
        THEN /\ resp.request.header \in DOMAIN TokenUsers
             /\ resp.key = UserKey(TokenUsers[resp.request.header].id)
        ELSE IF resp.request.forwarded # <<>>
             THEN \E e \in {<<"1">>, <<"2">>} :
                     /\ IsFirstEntry(e, resp.request.forwarded)
                     /\ resp.key = IpKey(e)
        ELSE IF resp.request.realIp # <<>> THEN resp.key = IpKey(resp.request.realIp)
        ELSE resp.key = IpKey(UNKNOWN)

\* a request to /api/sync is answered the same, and leaves the same store,
\* whatever its x-forwarded-for and x-real-ip
C17_AddressBlind ==
    (resp'.called /\ resp'.route = "sync" /\ now' = now) =>
        \A f \in KeyedForwarded : \A r \in KeyedRealIp :
            LET other == serve([resp'.request EXCEPT !.forwarded = f, !.realIp = r],
                               store, lastCleanup, now)
            IN  /\ other.status = resp'.status
                /\ other.key = resp'.key
                /\ other.result = resp'.result
                /\ other.store = store'

\* C17: on a route with requireAuth: true the rate-limit decision depends
\* only on the authenticated user id (key user:<id>) and not on
\* x-forwarded-for or x-real-ip; on a route with requireAuth: false the key
\* is the first entry of x-forwarded-for, else x-real-ip, else the single
\* shared key ip:unknown.
C17_KeyedByUserOrIp == []C17_KeyOfRoute /\ [][C17_AddressBlind]_vars

\* the sixth request of one user to /api/sync in a window is denied though
\* it names an address that has sent nothing
C17_Witness ==
    /\ resp.called /\ resp.route = "sync" /\ resp.status = 429
    /\ resp.request.forwarded = <<" ", "1", ",", " ", "2">>
    /\ resp.key = UserKey(TokenUsers["tokExact"].id)
    /\ store[IpKey(<<"1">>)].count = 0
    /\ store[IpKey(<<"2">>)].count > 0

\* C18: syncPerfexCRM and syncUchat return success: true only if every
\* upsert they issued was stored: when any upsert reports an error in its
\* returned result, the sync returns success: false with an error message.
C18_SuccessMeansStored ==
    \A i \in 1..MaxRuns : \A src \in Sources :
        (proc[i][src].pc = "done" /\ proc[i][src].unstored)
            => /\ proc[i][src].outcome.settled = "fulfilled"
               /\ ~proc[i][src].outcome.value.success

----------------------------------------------------------------------------
(* SpecOverlap: syncPerfexCRM invocations that overlap. Nothing in the      *)
(* service or in POST /api/sync keeps a second invocation from starting     *)
(* while the first is at one of its awaits.                                 *)

\* POST /api/sync with source "perfexcrm", whatever the invocations before
\* it are doing
CallOverlapping ==
    \E i \in 1..MaxRuns :
        /\ task[i].pc = "idle"
        /\ \A j \in 1..(i - 1) : task[j].pc # "idle"
        /\ LET begun == Begin("perfexcrm")
           IN  /\ proc' = [proc EXCEPT ![i].perfexcrm = begun]
               /\ task' = [task EXCEPT ![i] =
                             [NoTask EXCEPT !.op = syncOf("perfexcrm"),
                                 !.source = "perfexcrm", !.pc = "awaiting",
                                 !.order = IF begun.pc = "done"
                                           THEN <<"perfexcrm">> ELSE <<>>]]
        /\ UNCHANGED <<date, upstream, apiConfig, db, nchanges>>
        /\ UNCHANGED <<serverVars, restVars>>

SpecOverlap ==
    /\ SyncInit
    /\ [][CallOverlapping \/ syncPerfexCRM \/ Return \/ UpstreamChange]_vars

\* today's rows of perfexcrm_metrics with the type and key
TodaysRows(type, key) ==
    {r \in db.rows.perfexcrm_metrics :
        r.metric_type = type /\ r.metric_key = key /\ r.metric_date = date}

\* C19: once every started sync has finished, the sales_summary insight
\* agrees with today's metric rows: total_customers, total_invoices and
\* total_leads equal the count of the customers/total, invoices/summary and
\* leads/total rows for today, also when two syncPerfexCRM invocations
\* overlap and upstream data changes between their fetches.
C19_InsightAgreesWithMetrics ==
    (\A i \in 1..MaxRuns : ~InFlight(i)) =>
        \A s \in db.rows.aggregated_insights :
            s.insight_type = "sales_summary" =>
                /\ \A r \in TodaysRows("customers", "total") :
                      s.insight_value.total_customers = r.metric_value.count
                /\ \A r \in TodaysRows("invoices", "summary") :
                      s.insight_value.total_invoices = r.metric_value.count
                /\ \A r \in TodaysRows("leads", "total") :
                      s.insight_value.total_leads = r.metric_value.count

----------------------------------------------------------------------------
(* SpecSweep: the limiter beside a limiter that never sweeps. Both get the  *)
(* same calls at the same times; unswept is the store of the second.        *)
(* cleanupExpiredEntries reads the clock when rateLimit enters, and         *)
(* rateLimit reads it again after the sweep: the second reading may be a    *)
(* millisecond later.                                                       *)

SweepInit ==
    /\ authIn = Idle /\ authOut = Idle /\ resp = Idle /\ usage = Idle
    /\ win = Idle
    /\ NoSync /\ NoPage /\ call = Idle /\ NoUi
    /\ now = 0
    /\ lastCleanup = 0
    /\ store = [k \in Keys |-> NoEntry]
    /\ unswept = [k \in Keys |-> NoEntry]
    /\ nticks = 0
    /\ last = [called |-> FALSE]

\* rateLimit(identifier, options): the sweep at the first reading of the
\* clock, the rest at the second. The limiter that never sweeps is rateLimit
\* with the sweep not due.
CallSwept ==
    \E c \in DOMAIN RateConfigs :
      \E later \in (IF nticks < MaxTicks THEN {0, 1} ELSE {0}) :
        LET key == RateConfigs[c].key
            options == RateConfigs[c].options
            swept == cleanupExpiredEntries(store, lastCleanup, now)
            t == now + later
            r == rateLimit(swept.store, t, t, key, options)
            reference == rateLimit(unswept, t, t, key, options)
        IN  /\ unswept[key].count < options.maxRequests + MaxOver
            /\ store' = r.store
            /\ lastCleanup' = swept.lastCleanup
            /\ unswept' = reference.store
            /\ now' = t
            /\ nticks' = nticks + later
            /\ last' = [called |-> TRUE, key |-> key, at |-> now,
                        result |-> r.result, reference |-> reference.result,
                        deleted |-> {k \in Keys : store[k].present
                                                   /\ ~swept.store[k].present}]
            /\ UNCHANGED <<authIn, authOut, win, resp, usage>>
            /\ UNCHANGED <<syncVars, pageVars, call, uiVars>>

\* the clock of SpecSweep
SweepTick ==
    /\ nticks < MaxTicks
    /\ \E d \in TickSet : now' = now + d
    /\ nticks' = nticks + 1
    /\ UNCHANGED <<authIn, authOut, lastCleanup, store, win, last, resp, usage>>
    /\ UNCHANGED <<syncVars, pageVars, call, unswept, uiVars>>

SpecSweep == SweepInit /\ [][SweepTick \/ CallSwept]_vars

\* every call returns what the limiter that never sweeps returns
C20_SameResults ==
    last.called =>
        /\ last.result.success = last.reference.success
        /\ last.result.remaining = last.reference.remaining
        /\ last.result.reset = last.reference.reset
        /\ last.result.retryAfter = last.reference.retryAfter

\* a step deletes only entries whose resetTime is earlier than the time of
\* the call, and sweeps only when 60 s have passed since the last sweep
C20_SweepsExpiredOnly ==
    /\ \A k \in last'.deleted : store[k].resetTime < last'.at
    /\ last'.deleted # {} => lastCleanup' # lastCleanup
    /\ lastCleanup' # lastCleanup
          => (lastCleanup' = last'.at /\ lastCleanup' - lastCleanup >= CLEANUP_INTERVAL)
    /\ \A k \in Keys \ {last'.key} :
          store'[k] = IF k \in last'.deleted THEN NoEntry ELSE store[k]

\* C20: cleanupExpiredEntries deletes only entries whose resetTime is earlier
\* than the current time, runs at most once per 60 s, and for every sequence
\* of rateLimit calls each call returns the same result (success, remaining,
\* reset, retryAfter) as it would if no entry were ever swept.
C20_SweepIsTransparent ==
    []C20_SameResults /\ [][unswept' # unswept => C20_SweepsExpiredOnly]_vars

\* a call whose sweep has just deleted the expired entry of another
\* identifier is made on an identifier that was denied before
C20_Witness ==
    /\ last.called
    /\ last.deleted # {} /\ last.key \notin last.deleted
    /\ ~last.result.success
    /\ \E k \in last.deleted : unswept[k].present /\ ~store[k].present

----------------------------------------------------------------------------
(* SpecRefresh: the refresh button of DashboardHeader                       *)
(* (components/dashboard/dashboard-header.tsx) and the POST /api/sync it    *)
(* sends, beside the requests other clients send to /api/sync.              *)

\* how many times the button is clicked in one behaviour
MaxClicks == 2

\* DashboardHeader after its first render: useState(false), no handleRefresh
\* running. request: where the fetch of the running handleRefresh is
\* ("sent": not yet served, "served": the server has answered it); response:
\* the status the server answered and the sync its handler ran.
RefreshInit ==
    /\ authIn = Idle /\ authOut = Idle /\ last = Idle
    /\ NoSync /\ NoPage /\ call = Idle /\ unswept = Idle
    /\ hook = Idle /\ fetches = Idle /\ notes = Idle
    /\ now = 0
    /\ lastCleanup = 0
    /\ store = [k \in Keys |-> NoEntry]
    /\ nticks = 0
    /\ win = [k \in Keys |-> NoWindow]
    /\ resp = [called |-> FALSE]
    /\ usage = 0
    /\ headerState = [isRefreshing |-> FALSE, pc |-> "idle", request |-> "",
                      response |-> [status |-> 0, ran |-> "none"],
                      clicks |-> 0,
                      onRefresh |-> [called |-> FALSE, fetch |-> "", ran |-> "none"]]

\* onClick={handleRefresh} of the button, disabled while isRefreshing:
\* setIsRefreshing(true) and the fetch of /api/sync, up to its await
handleRefresh ==
    /\ ~headerState.isRefreshing /\ headerState.pc = "idle"
    /\ headerState.clicks < MaxClicks
    /\ headerState' = [headerState EXCEPT
                          !.isRefreshing = TRUE, !.pc = "fetch",
                          !.request = "sent",
                          !.response = [status |-> 0, ran |-> "none"],
                          !.clicks = @ + 1]
    /\ UNCHANGED <<serverVars, syncVars, pageVars, call, unswept,
                   hook, fetches, notes>>

\* The server serves the fetch of handleRefresh: method POST, the headers
\* { "Content-Type": "application/json" } and no other (no Authorization
\* header), the body { source: "all" }.
POST ==
    \E env \in HttpEnvs :
        LET request == [route |-> "sync", header |-> "absent", env1 |-> env,
                        env2 |-> env, forwarded |-> <<>>, realIp |-> <<>>,
                        input |-> "all"]
        IN  \E out \in {serve(request, store, lastCleanup, now)} :
            /\ headerState.pc = "fetch" /\ headerState.request = "sent"
            /\ store' = out.store
            /\ lastCleanup' = out.lastCleanup
            /\ headerState' = [headerState EXCEPT
                                  !.request = "served",
                                  !.response = [status |-> out.status,
                                                ran |-> out.answer.ran]]
            /\ UNCHANGED <<authIn, authOut, now, nticks, win, last, resp, usage>>
            /\ UNCHANGED <<syncVars, pageVars, call, unswept, hook, fetches, notes>>

\* the call onRefresh?.() and the finally block after it
CallOnRefresh(h, fetch) ==
    [h EXCEPT !.onRefresh = [called |-> TRUE, fetch |-> fetch,
                             ran |-> h.response.ran],
              !.isRefreshing = FALSE, !.pc = "idle", !.request = ""]

\* handleRefresh goes on after an await: after the fetch with
\* if (syncResponse.ok), after syncResponse.json() with the 500 ms timer,
\* after the timer with onRefresh
Resume ==
    /\ \/ headerState.pc = "fetch" /\ headerState.request = "served"
       \/ headerState.pc \in {"json", "timeout"}
    /\ headerState' =
          IF headerState.pc = "fetch"
          THEN IF headerState.response.status \in 200..299
               THEN [headerState EXCEPT !.pc = "json"]
               ELSE CallOnRefresh(headerState, "resolved")
          ELSE IF headerState.pc = "json"
               THEN [headerState EXCEPT !.pc = "timeout"]
          ELSE CallOnRefresh(headerState, "resolved")
    /\ UNCHANGED <<serverVars, syncVars, pageVars, call, unswept,
                   hook, fetches, notes>>

\* the fetch (the connection fails, before or after the server served the
\* request) or syncResponse.json() rejects: the catch block calls onRefresh
Catch ==
    /\ headerState.pc \in {"fetch", "json"}
    /\ headerState' = CallOnRefresh(headerState, "rejected")
    /\ UNCHANGED <<serverVars, syncVars, pageVars, call, unswept,
                   hook, fetches, notes>>

\* another client of POST /api/sync, one that sends the owner's token with
\* its requests, is served
AuthorizedPOST ==
    \E env \in HttpEnvs : \E input \in {"all", "perfexcrm"} :
        LET request == [route |-> "sync", header |-> "tokExact", env1 |-> env,
                        env2 |-> env, forwarded |-> <<>>, realIp |-> <<>>,
                        input |-> input]
        IN  \E out \in {serve(request, store, lastCleanup, now)} :
            /\ out.checked => SumCounts(store, Keys) < MaxLoad
            /\ store' = out.store
            /\ lastCleanup' = out.lastCleanup
            /\ resp' = [called |-> TRUE, route |-> "sync", status |-> out.status,
                        ran |-> out.answer.ran]
            /\ UNCHANGED <<authIn, authOut, now, nticks, win, last, usage>>
            /\ UNCHANGED <<syncVars, restVars>>

SpecRefresh ==
    /\ RefreshInit
    /\ [][handleRefresh \/ POST \/ Resume \/ Catch
          \/ HttpTick \/ AuthorizedPOST]_vars

\* C21: whenever handleRefresh calls onRefresh after the fetch of the click
\* has been answered, the server has run syncAll for that request: the sync
\* completed before the refresh. (A fetch that fails for want of a connection
\* is left out: no request settled at the server.)
C21_RefreshAfterSync ==
    (headerState.onRefresh.called /\ headerState.onRefresh.fetch = "resolved") =>
        headerState.onRefresh.ran = "syncAll"

----------------------------------------------------------------------------
(* SpecRealtime: useRealtimeData (lib/hooks/use-realtime-data.ts) beside a  *)
(* writer of the tables it shows. A fetch is sent, the database answers it  *)
(* with the rows the table holds at that moment, and its promise settles    *)
(* later; nothing orders the fetches in flight.                             *)

\* how many fetches are in flight at a time
MaxFetches == 4

\* how many times the writer changes a table in one behaviour
MaxWrites == 2

\* useState([]) three times, the effect not yet run, the tables empty
RealtimeInit ==
    /\ authIn = Idle /\ authOut = Idle /\ now = Idle /\ lastCleanup = Idle
    /\ store = Idle /\ nticks = Idle /\ win = Idle /\ last = Idle
    /\ resp = Idle /\ usage = Idle
    /\ date = Idle /\ upstream = Idle /\ apiConfig = Idle
    /\ task = Idle /\ proc = Idle /\ nchanges = Idle
    /\ NoPage /\ call = Idle /\ unswept = Idle /\ headerState = Idle
    /\ db = [rows   |-> [t \in DOMAIN UniqueColumns |-> {}],
             nextId |-> [t \in DOMAIN UniqueColumns |-> 1]]
    /\ hook = [mounted |-> FALSE, erred |-> FALSE,
               perfexcrm_metrics |-> {}, uchat_metrics |-> {},
               aggregated_insights |-> {}]
    /\ fetches = <<>>
    /\ notes = [pending |-> [t \in DOMAIN UniqueColumns |-> 0], writes |-> 0]

\* fetchPerfexcrmMetrics / fetchUchatMetrics / fetchAggregatedInsights up to
\* the await: the select of the table is sent
fetch(table) == [table |-> table, pc |-> "sent", data |-> {}]

\* the effect of the hook: the three channels are subscribed and the three
\* tables fetched
useEffectRealtime ==
    /\ ~hook.mounted
    /\ hook' = [hook EXCEPT !.mounted = TRUE]
    /\ fetches' = <<fetch("perfexcrm_metrics"), fetch("uchat_metrics"),
                    fetch("aggregated_insights")>>
    /\ UNCHANGED <<serverVars, date, upstream, apiConfig, db, task, proc, nchanges>>
    /\ UNCHANGED <<pageVars, call, unswept, headerState, notes>>

\* The sync service writes a row of today's (a lead count of perfexcrm_metrics,
\* the sales summary of aggregated_insights); a write that changes the table
\* is notified to the channel of the table, if it is subscribed.
Write ==
    \E v \in 1..Len(PerfexData) : \E table \in {"perfexcrm_metrics", "aggregated_insights"} :
    \E out \in {IF table = "perfexcrm_metrics"
                THEN upsert(db, table, LeadsRow(1, PerfexData[v]), onConflict)
                ELSE upsert(db, table, SalesSummary(PerfexData[v], 1), NoOnConflict)} :
        /\ notes.writes < MaxWrites
        /\ out.db # db
        /\ db' = out.db
        /\ notes' = [notes EXCEPT !.writes = @ + 1,
                                  !.pending[table] = IF hook.mounted THEN @ + 1 ELSE @]
        /\ UNCHANGED <<serverVars, date, upstream, apiConfig, task, proc, nchanges>>
        /\ UNCHANGED <<pageVars, call, unswept, headerState, hook, fetches>>

\* the postgres_changes callback of a channel: it fetches the table again
Callback ==
    \E table \in DOMAIN UniqueColumns :
        /\ notes.pending[table] > 0
        /\ Len(fetches) < MaxFetches
        /\ notes' = [notes EXCEPT !.pending[table] = @ - 1]
        /\ fetches' = Append(fetches, fetch(table))
        /\ UNCHANGED <<serverVars, syncVars, pageVars, call, unswept,
                       headerState, hook>>

\* the database answers the select of a fetch with the rows of the table
\* (order("updated_at") orders them; the rows are the same)
Select ==
    \E i \in 1..Len(fetches) :
        /\ fetches[i].pc = "sent"
        /\ fetches' = [fetches EXCEPT ![i] =
                          [@ EXCEPT !.pc = "answered",
                                    !.data = db.rows[fetches[i].table]]]
        /\ UNCHANGED <<serverVars, syncVars, pageVars, call, unswept,
                       headerState, hook, notes>>

\* The await of a fetch settles, in any order among the fetches in flight:
\* if (!error && data) the state is set. An answered select settles with its
\* data or is lost on the way back; one not answered settles with an error.
Settle ==
    \E i \in 1..Len(fetches) : \E error \in BOOLEAN :
        /\ ~error => fetches[i].pc = "answered"
        /\ hook' = IF error THEN [hook EXCEPT !.erred = TRUE]
                   ELSE [hook EXCEPT ![fetches[i].table] = fetches[i].data]
        /\ fetches' = SubSeq(fetches, 1, i - 1)
                          \o SubSeq(fetches, i + 1, Len(fetches))
        /\ UNCHANGED <<serverVars, syncVars, pageVars, call, unswept,
                       headerState, notes>>

SpecRealtime ==
    /\ RealtimeInit
    /\ [][useEffectRealtime \/ Write \/ Callback \/ Select \/ Settle]_vars

\* C22: once no change notification is undelivered and every fetch the hook
\* started has completed, none with an error, aggregatedInsights is what the
\* aggregated_insights table holds.
C22_SettledShowsTable ==
    ( /\ hook.mounted /\ ~hook.erred
      /\ fetches = <<>>
      /\ \A t \in DOMAIN UniqueColumns : notes.pending[t] = 0 )
        => hook.aggregated_insights = db.rows.aggregated_insights

====
